---- MODULE Spec2Model ----
(***************************************************************************)
(* Approval-driven learning-weight engine of ruvvector-service, with the   *)
(* decision store it ranks: createDecisionHandler, createApprovalHandler   *)
(* and listDecisionsHandler.                                               *)
(*                                                                         *)
(* The store (PostgreSQL) holds three tables: decisions, approvals and     *)
(* learning_weights.  Every dbClient.query is one statement and is taken   *)
(* as one atomic step of the store; a handler is a sequence of such steps  *)
(* (one per await), and handlers of different requests interleave between  *)
(* their awaits.  A query may fail (the pool throws), and a failed         *)
(* statement changes nothing in the store.                                 *)
(*                                                                         *)
(* Numbers: weights, rewards and adjustments are fixed-point integers in   *)
(* units of 1/One.  One is chosen so that every EMA step within the        *)
(* bounds is exact; rounding of IEEE doubles is not modelled.              *)
(* Text: strings the code inspects (recommendation, objective, signal      *)
(* texts, ids) are sequences of one-character strings.                     *)
(***************************************************************************)
EXTENDS Integers, Sequences, FiniteSets, TLC

\* ---------------------------------------------------------------- bounds
\* Approval requests accepted over a run (bounds every update_count).
MaxApprovals == 2
\* createDecision requests accepted over a run.
MaxCreates == 2
\* Updates of one ledger row with a constant reward.
MaxSteps == 4
\* Largest circuitBreaker.threshold and circuitBreaker.timeout configured.
MaxThreshold == 2
MaxTimeout == 2
\* Ticks of the clock and VectorClient calls over a run.
MaxNow == 4
MaxCalls == 5
\* Largest maxAttempts a caller of withRetry configures.
MaxAttempts == 3
\* Requests the deployment handlers receive in one behaviour.
MaxRequests == 3
\* Shutdown signals the process receives.
MaxSignals == 3

\* Concurrent request workers (event-loop tasks) of the approval handler.
Workers == {"w1", "w2"}

\* ------------------------------------------------------------ fixed point
RECURSIVE Pow10(_)
Pow10(n) == IF n = 0 THEN 1 ELSE 10 * Pow10(n - 1)

\* 1.0 in fixed-point units; halves and MaxApprovals EMA steps stay exact.
One == Pow10(MaxApprovals)

\* Product of two fixed-point numbers.
Mul(a, b) == (a * b) \div One

\* ------------------------------------------------------------------ text
Lowers == <<"a","b","c","d","e","f","g","h","i","j","k","l","m",
            "n","o","p","q","r","s","t","u","v","w","x","y","z">>
Uppers == <<"A","B","C","D","E","F","G","H","I","J","K","L","M",
            "N","O","P","Q","R","S","T","U","V","W","X","Y","Z">>

\* String.prototype.toUpperCase / toLowerCase on one character.
UpperOf ==
  [c \in {Lowers[i] : i \in 1..Len(Lowers)} |->
     Uppers[CHOOSE i \in 1..Len(Lowers) : Lowers[i] = c]]
LowerOf ==
  [c \in {Uppers[i] : i \in 1..Len(Uppers)} |->
     Lowers[CHOOSE i \in 1..Len(Uppers) : Uppers[i] = c]]
ToUpperChar(c) == IF c \in DOMAIN UpperOf THEN UpperOf[c] ELSE c
ToLowerChar(c) == IF c \in DOMAIN LowerOf THEN LowerOf[c] ELSE c

RECURSIVE ToUpperCase(_)
ToUpperCase(s) ==
  IF Len(s) = 0 THEN s
  ELSE ToUpperChar(SubSeq(s, 1, 1)) \o ToUpperCase(SubSeq(s, 2, Len(s)))

RECURSIVE ToLowerCase(_)
ToLowerCase(s) ==
  IF Len(s) = 0 THEN s
  ELSE ToLowerChar(SubSeq(s, 1, 1)) \o ToLowerCase(SubSeq(s, 2, Len(s)))

\* s.substring(0, n)
Substring0(s, n) == IF Len(s) <= n THEN s ELSE SubSeq(s, 1, n)

\* s.trim(), for the white space U+0020.
RECURSIVE TrimStart(_)
TrimStart(s) ==
  IF Len(s) > 0 /\ SubSeq(s, 1, 1) = " "
  THEN TrimStart(SubSeq(s, 2, Len(s))) ELSE s

RECURSIVE TrimEnd(_)
TrimEnd(s) ==
  IF Len(s) > 0 /\ SubSeq(s, Len(s), Len(s)) = " "
  THEN TrimEnd(SubSeq(s, 1, Len(s) - 1)) ELSE s

Trim(s) == TrimEnd(TrimStart(s))

\* text ILIKE '%' || part || '%', for a part without the wildcards % and _.
ILikeContains(text, part) ==
  \E i \in 1..(Len(text) - Len(part) + 1) :
    ToLowerCase(SubSeq(text, i, i + Len(part) - 1)) = ToLowerCase(part)

DigitChars == <<"0", "1", "2", "3", "4", "5", "6", "7", "8", "9">>
IsDigit(c) == \E i \in 1..Len(DigitChars) : DigitChars[i] = c
DigitValue(c) == (CHOOSE i \in 1..Len(DigitChars) : DigitChars[i] = c) - 1

\* The number of decimal digits s starts with.
RECURSIVE LeadingDigits(_)
LeadingDigits(s) ==
  IF Len(s) > 0 /\ IsDigit(SubSeq(s, 1, 1))
  THEN 1 + LeadingDigits(SubSeq(s, 2, Len(s))) ELSE 0

\* The value of a string of decimal digits.
RECURSIVE DigitsValue(_)
DigitsValue(s) ==
  IF Len(s) = 0 THEN 0
  ELSE 10 * DigitsValue(SubSeq(s, 1, Len(s) - 1))
       + DigitValue(SubSeq(s, Len(s), Len(s)))

\* ------------------------------------------------- recommendation type
\* The alternation of the regular expression, in its order.
TypeTokens == <<"PROCEED", "DEFER", "REJECT", "REVIEW", "HALT">>

\* /^(tok)/i matches at the start of s.
MatchesAtStart(tok, s) ==
  /\ Len(s) >= Len(tok)
  /\ ToUpperCase(SubSeq(s, 1, Len(tok))) = tok

\* extractRecommendationType: the first alternative that matches at the
\* start, upper-cased; UNKNOWN when none does.
extractRecommendationType(recommendation) ==
  IF \E i \in 1..Len(TypeTokens) : MatchesAtStart(TypeTokens[i], recommendation)
  THEN LET i == CHOOSE i \in 1..Len(TypeTokens) :
                  /\ MatchesAtStart(TypeTokens[i], recommendation)
                  /\ \A j \in 1..(i - 1) :
                       ~MatchesAtStart(TypeTokens[j], recommendation)
       IN ToUpperCase(SubSeq(recommendation, 1, Len(TypeTokens[i])))
  ELSE "UNKNOWN"

\* ------------------------------------------------------- reward deriver
\* An optional number is <<>> when absent (undefined, SQL NULL) and <<v>>
\* when present.
Absent == <<>>
Null == <<>>
Some(v) == <<v>>

\* Mutant: a learning rate of 1.5.
LearningRateAboveOne == <<3, 2>>

\* const LEARNING_RATE = 0.1, as numerator and denominator.
LEARNING_RATE == <<1, 10>>

\* LEARNING_RATE * x
TimesRate(x) == (LEARNING_RATE[1] * x) \div LEARNING_RATE[2]

\* Mutant: the schema without .min(-1).
ValidAdjustmentNoMin(adj) ==
  IF adj = Absent THEN TRUE ELSE adj[1] <= One

\* Mutant: the schema without .max(1).
ValidAdjustmentNoMax(adj) ==
  IF adj = Absent THEN TRUE ELSE adj[1] >= -One

\* z.number().min(-1).max(1).optional()
ValidAdjustment(adj) ==
  IF adj = Absent THEN TRUE ELSE adj[1] >= -One /\ adj[1] <= One

\* JavaScript truthiness of an optional number.
Truthy(adj) == IF adj = Absent THEN FALSE ELSE adj[1] # 0

\* approved ? 1.0 : -1.0
BaseReward(approved) == IF approved THEN One ELSE -One

\* Mutant: the adjustment multiplies the reward without the 1 +.
AdjustedRewardNoOne(approved, adj) ==
  IF Truthy(adj) THEN Mul(BaseReward(approved), adj[1])
  ELSE BaseReward(approved)

\* confidence_adjustment ? reward * (1 + confidence_adjustment) : reward
AdjustedReward(approved, adj) ==
  IF Truthy(adj) THEN Mul(BaseReward(approved), One + adj[1])
  ELSE BaseReward(approved)

\* confidence_adjustment || null
StoredAdjustment(adj) == IF Truthy(adj) THEN adj ELSE Null

\* ---------------------------------------------------------------- inputs
\* Ids are UUIDs abbreviated to two hex digits: "d1" and "D1" are one UUID
\* in two letter cases, "zz" is not a UUID.
HexDigits == {"0","1","2","3","4","5","6","7","8","9",
              "a","b","c","d","e","f","A","B","C","D","E","F"}

\* z.string().uuid()
IsUuid(s) ==
  /\ Len(s) > 0
  /\ \A i \in 1..Len(s) : SubSeq(s, i, i) \in HexDigits

\* A column of type UUID holds the canonical (lower-case) form.
CanonUuid(s) == ToLowerCase(s)

\* Texts longer than the two truncation lengths.
Text60 == "the budget is approved for the whole of the next fiscal year"
Text240 == Text60 \o Text60 \o Text60 \o Text60

\* Bodies of POST /v1/decisions.  d1 and e2 share the objective and two
\* signal texts; the third body rewrites d1 under its upper-case id.
CreateBodies ==
  { [id |-> "d1", objective |-> "ship v2",
     recommendation |-> "PROCEED: ship it",
     signals |-> [financial |-> "ok", risk |-> "low", complexity |-> "low"]],
    [id |-> "e2", objective |-> "ship v2",
     recommendation |-> "proceed, again",
     signals |-> [financial |-> "ok", risk |-> "high", complexity |-> "low"]],
    [id |-> "D1", objective |-> Text240,
     recommendation |-> "maybe defer",
     signals |-> [financial |-> Text60, risk |-> "low", complexity |-> "ok"]] }

\* Bodies of POST /decision/approval.
ApprovalBodies ==
  { [decision_id |-> "d1", approved |-> TRUE, confidence_adjustment |-> Absent],
    [decision_id |-> "d1", approved |-> FALSE, confidence_adjustment |-> Absent],
    [decision_id |-> "D1", approved |-> TRUE, confidence_adjustment |-> Some(One)],
    [decision_id |-> "d1", approved |-> TRUE, confidence_adjustment |-> Some(0)],
    [decision_id |-> "e2", approved |-> FALSE, confidence_adjustment |-> Some(-One)],
    [decision_id |-> "e2", approved |-> TRUE,
     confidence_adjustment |-> Some(One \div 2)],
    [decision_id |-> "d1", approved |-> TRUE,
     confidence_adjustment |-> Some(2 * One)],
    [decision_id |-> "e2", approved |-> FALSE,
     confidence_adjustment |-> Some(-(One + One \div 2))],
    [decision_id |-> "zz", approved |-> TRUE, confidence_adjustment |-> Absent] }

\* ----------------------------------------------------------------- state
VARIABLES
  decisions,        \* table decisions: canonical id -> row
  approvals,        \* table approvals: sequence of rows, in insertion order
  learning_weights, \* table learning_weights: key -> the rows that hold it
  pc,               \* per worker: position in createApprovalHandler
  body,             \* per worker: req.body (validatedData once parsed)
  decision,         \* per worker: decisionResult.rows[0]
  adjustedReward,   \* per worker
  approvalId,       \* per worker
  recommendationType, \* per worker
  edge,             \* per worker: index of the next edge update (1..6)
  weightsUpdated,   \* per worker
  res,              \* per worker: the response to its last request
  nApprovals,       \* approval requests received so far
  nCreates,         \* createDecision requests received so far
  history,          \* ghost: key -> rewards committed on it, in commit order
  applied,          \* ghost: per worker, keys its current event committed
  errorLog,         \* per worker: logger.error records of its latest request
  vectorClient,     \* the VectorClient object's fields
  now,              \* Date.now()
  callResult,       \* how the latest VectorClient call settled
  retry,            \* withRetry: its locals and the invocations it made
  deployments,      \* table deployments: canonical id -> row
  request,          \* per worker: its deployment request and the response
  nRequests,        \* deployment requests received so far
  process,          \* the server, the pool, the shutdown handlers, the exit
  listPc,           \* position in listDecisionsHandler
  listReq,          \* req.query of the list request
  total,            \* listDecisionsHandler's total
  listRes,          \* the response to the last list request
  calc              \* the value a pure function is applied to

vars == <<decisions, approvals, learning_weights, pc, body, decision,
          adjustedReward, approvalId, recommendationType, edge,
          weightsUpdated, res, nApprovals, nCreates, history, applied,
          errorLog, vectorClient, now, callResult, retry, deployments,
          request, nRequests, process, listPc, listReq, total,
          listRes, calc>>

store == <<decisions, approvals, learning_weights, history>>
locals == <<body, decision, adjustedReward, approvalId, recommendationType,
            edge, weightsUpdated, applied>>

NoBody == [decision_id |-> "", approved |-> FALSE,
           confidence_adjustment |-> Absent]
NoDecision == [id |-> "", objective |-> "", recommendation |-> "",
               signals |-> [financial |-> "", risk |-> "", complexity |-> ""]]
NoResponse == [status |-> 0]
NoRows == << >>
NoQuery == [objective |-> Absent, limit |-> Absent, offset |-> Absent]
NoCalc == [of |-> "nothing"]

aux == <<listPc, listReq, total, listRes, calc>>
approver == <<pc, locals, res, nApprovals, errorLog>>
client == <<vectorClient, now, callResult, retry>>
deploys == <<deployments, request, nRequests>>

\* CircuitState
CLOSED == "closed"
OPEN == "open"
HALF_OPEN == "half_open"

\* config.circuitBreaker: failures before opening and time in the open
\* state, in ticks of the clock.
CircuitConfigs ==
  {[threshold |-> t, timeout |-> d] : t \in 1..MaxThreshold,
                                      d \in 1..MaxTimeout}

\* new VectorClient(config)
VectorClient(config) ==
  [connected |-> FALSE, circuitState |-> CLOSED, failureCount |-> 0,
   lastFailureTime |-> 0, circuitConfig |-> config]

NoCall == [n |-> 0]
NoRetry == [pc |-> "idle"]
\* The process after startServer and setupGracefulShutdown.
Serving == [server |-> "listening", pool |-> "open", shutdowns |-> << >>,
            exitCode |-> Absent, logged |-> "Server started successfully"]
NoRequest == [pc |-> "idle", handler |-> "", id |-> "",
              body |-> [status |-> Absent, version |-> Absent],
              currentVersion |-> 0, res |-> NoResponse]

\* Empty tables, no request in progress.
HandlersIdle ==
  /\ decisions = << >>
  /\ approvals = << >>
  /\ learning_weights = NoRows
  /\ history = << >>
  /\ pc = [w \in Workers |-> "idle"]
  /\ body = [w \in Workers |-> NoBody]
  /\ decision = [w \in Workers |-> NoDecision]
  /\ adjustedReward = [w \in Workers |-> 0]
  /\ approvalId = [w \in Workers |-> 0]
  /\ recommendationType = [w \in Workers |-> ""]
  /\ edge = [w \in Workers |-> 0]
  /\ weightsUpdated = [w \in Workers |-> 0]
  /\ res = [w \in Workers |-> NoResponse]
  /\ applied = [w \in Workers |-> << >>]
  /\ errorLog = [w \in Workers |-> << >>]
  /\ nApprovals = 0
  /\ nCreates = 0
  /\ deployments = << >>
  /\ request = [w \in Workers |-> NoRequest]
  /\ nRequests = 0
  /\ process = Serving
  /\ listPc = "idle"
  /\ listReq = NoQuery
  /\ total = 0
  /\ listRes = NoResponse

\* The service after start-up: the handlers idle and the client
\* constructed from the configuration.
Started ==
  /\ HandlersIdle
  /\ vectorClient =
       VectorClient([threshold |-> MaxThreshold, timeout |-> MaxTimeout])
  /\ now = 0
  /\ callResult = NoCall
  /\ retry = NoRetry

Init ==
  /\ Started
  /\ calc = NoCalc

\* ----------------------------------------------------------- the ledger
\* Mutant: ON CONFLICT DO NOTHING, the second update of a key is lost.
OnConflictDoNothing(row, reward) == row

\* Mutant: the conflicting row is overwritten with the raw reward.
OnConflictOverwrite(row, reward) ==
  [weight |-> reward, update_count |-> row.update_count + 1]

\* Mutant: the conflicting row's weight moves but its count is kept.
OnConflictKeepsCount(row, reward) ==
  [weight |-> row.weight + TimesRate(reward - row.weight),
   update_count |-> row.update_count]

\* The DO UPDATE SET arm of the upsert: the row after the statement.
OnConflictUpdate(row, reward) ==
  [weight |-> row.weight + TimesRate(reward - row.weight),
   update_count |-> row.update_count + 1]

\* Mutant: the new row starts from the column default update_count 0.
InsertedRowDefaultCount(reward) == [weight |-> reward, update_count |-> 0]

\* The VALUES arm of the upsert: the row inserted when the key is new.
InsertedRow(reward) == [weight |-> reward, update_count |-> 1]

\* A row of learning_weights holds weight and update_count; the columns
\* id, created_at and updated_at are not modelled.  The rows are grouped by
\* their columns (source_type, source_id, target_type, target_value), the
\* columns of the table's UNIQUE constraint: the table maps a key to the
\* sequence of the rows that hold it (NoRows is the empty table).
SourceType(key) == key[1]
SourceId(key) == key[2]
TargetType(key) == key[3]
TargetValue(key) == key[4]

\* The rows of the table that hold key.
RowsWithKey(table, key) ==
  IF key \in DOMAIN table THEN table[key] ELSE << >>

\* Mutant: the table without its UNIQUE constraint; no insert conflicts.
UpsertNoUnique(table, key, reward) ==
  IF key \in DOMAIN table
  THEN [table EXCEPT ![key] = Append(@, InsertedRow(reward))]
  ELSE table @@ (key :> <<InsertedRow(reward)>>)

\* Mutant: an upsert also halves every other row of the table.
UpsertDecaysOthers(table, key, reward) ==
  LET mine == IF RowsWithKey(table, key) = << >>
              THEN <<InsertedRow(reward)>>
              ELSE <<OnConflictUpdate(table[key][1], reward)>>
  IN [k \in DOMAIN table \cup {key} |->
        IF k = key THEN mine
        ELSE [i \in DOMAIN table[k] |->
                [table[k][i] EXCEPT !.weight = @ \div 2]]]

\* INSERT INTO learning_weights ... ON CONFLICT (source_type, source_id,
\* target_type, target_value) DO UPDATE ...: one statement, evaluated by
\* the store against the row the unique index finds.
Upsert(table, key, reward) ==
  IF RowsWithKey(table, key) = << >>
  THEN table @@ (key :> <<InsertedRow(reward)>>)
  ELSE [table EXCEPT ![key][1] = OnConflictUpdate(@, reward)]

\* The ledger read by key: the keys that have a row, and the row that
\* holds a key.
LedgerKeys == DOMAIN learning_weights
LedgerRow(key) == learning_weights[key][1]

\* Object.entries(decision.signals): the column is JSONB, which keeps the
\* keys of an object ordered by length and then by content.
SignalTypes == <<"risk", "financial", "complexity">>

\* Mutant: the trajectory upsert writes the decision edge's own key.
EdgeKeyNoTrajectory(i, decision_id, dec, recType) ==
  CASE i = 1 ->
         <<"decision", decision_id, "recommendation", recType>>
    [] i \in 2..4 ->
         LET signalType == SignalTypes[i - 1]
             signalId == signalType \o ":"
                           \o Substring0(dec.signals[signalType], 50)
         IN <<"signal", signalId, "recommendation", recType>>
    [] i = 5 ->
         <<"objective", Substring0(dec.objective, 200), "recommendation",
           recType>>
    [] i = 6 ->
         <<"decision", decision_id, "recommendation", recType>>

\* The learning_weights key written by the i-th edge update of an event.
EdgeKey(i, decision_id, dec, recType) ==
  CASE i = 1 ->
         <<"decision", decision_id, "recommendation", recType>>
    [] i \in 2..4 ->
         LET signalType == SignalTypes[i - 1]
             signalId == signalType \o ":"
                           \o Substring0(dec.signals[signalType], 50)
         IN <<"signal", signalId, "recommendation", recType>>
    [] i = 5 ->
         <<"objective", Substring0(dec.objective, 200), "recommendation",
           recType>>
    [] i = 6 ->
         <<"decision", "trajectory:" \o decision_id, "recommendation",
           "pattern:" \o recType>>

\* Edge updates of one approval event: the decision edge, one per signal,
\* the objective edge and the trajectory edge.
NumEdges == 1 + Len(SignalTypes) + 1 + 1

\* Ghost: the rewards committed on a key so far.
Recorded(h, key, reward) ==
  IF key \in DOMAIN h THEN [h EXCEPT ![key] = Append(@, reward)]
  ELSE h @@ (key :> <<reward>>)

\* ------------------------------------------------- createDecisionHandler
\* ON CONFLICT (id) DO UPDATE SET ...: every column but id and created_at
\* is taken from the request.
DecisionOnConflictUpdate(old, new) ==
  [new EXCEPT !.created_at = old.created_at]

\* POST /v1/decisions: INSERT INTO decisions ... ON CONFLICT (id) DO UPDATE.
\* created_at is the time of the request, of which ORDER BY observes the
\* order only: it is the rank of the row among the rows inserted.  A
\* request that names its own created_at is not modelled.
CreateDecision(b) ==
  /\ nCreates < MaxCreates
  /\ IsUuid(b.id)
  /\ nCreates' = nCreates + 1
  /\ decisions' =
       LET row == [id |-> CanonUuid(b.id), objective |-> b.objective,
                   recommendation |-> b.recommendation,
                   signals |-> b.signals,
                   created_at |-> Cardinality(DOMAIN decisions) + 1]
       IN IF row.id \in DOMAIN decisions
          THEN [decisions EXCEPT
                  ![row.id] = DecisionOnConflictUpdate(decisions[row.id], row)]
          ELSE decisions @@ (row.id :> row)
  /\ UNCHANGED <<process, deploys, client, approvals, learning_weights, history, pc, locals, res,
                 nApprovals, aux,
                 errorLog>>

\* ------------------------------------------------- createApprovalHandler
InternalError == [status |-> 500, error |-> "internal_error"]
\* The ZodError response: details names the path of every failing field.
ValidationError(b) ==
  [status |-> 400, error |-> "validation_error",
   details |->
     (IF IsUuid(b.decision_id) THEN << >> ELSE <<"decision_id">>)
     \o (IF ValidAdjustment(b.confidence_adjustment) THEN << >>
         ELSE <<"confidence_adjustment">>)]
NotFound == [status |-> 404, error |-> "not_found"]

\* The handler returns: its locals are gone, the response stays.
Returned(w, response) ==
  /\ pc' = [pc EXCEPT ![w] = "idle"]
  /\ res' = [res EXCEPT ![w] = response]
  /\ body' = [body EXCEPT ![w] = NoBody]
  /\ decision' = [decision EXCEPT ![w] = NoDecision]
  /\ adjustedReward' = [adjustedReward EXCEPT ![w] = 0]
  /\ approvalId' = [approvalId EXCEPT ![w] = 0]
  /\ recommendationType' = [recommendationType EXCEPT ![w] = ""]
  /\ edge' = [edge EXCEPT ![w] = 0]
  /\ weightsUpdated' = [weightsUpdated EXCEPT ![w] = 0]
  /\ applied' = [applied EXCEPT ![w] = << >>]

\* The route calls createApprovalHandler(req, res, dbClient).
Receive(w, b) ==
  /\ pc[w] = "idle"
  /\ nApprovals < MaxApprovals
  /\ nApprovals' = nApprovals + 1
  /\ pc' = [pc EXCEPT ![w] = "parse"]
  /\ body' = [body EXCEPT ![w] = b]
  /\ res' = [res EXCEPT ![w] = NoResponse]
  /\ errorLog' = [errorLog EXCEPT ![w] = << >>]
  /\ UNCHANGED <<process, deploys, client, store, decision, adjustedReward, approvalId,
                 recommendationType, edge, weightsUpdated, applied, nCreates,
                 aux>>

\* createApprovalSchema
SchemaAccepts(b) ==
  /\ IsUuid(b.decision_id)
  /\ ValidAdjustment(b.confidence_adjustment)

\* createApprovalSchema.parse(req.body) throws: the ZodError branch.
ParseRejected(w) ==
  /\ pc[w] = "parse"
  /\ ~SchemaAccepts(body[w])
  /\ Returned(w, ValidationError(body[w]))
  /\ UNCHANGED <<process, deploys, client, store, nApprovals, nCreates, aux,
                 errorLog>>

\* The errors pool.query rejects with when the store does not answer: the
\* driver's query timeout and a lost connection.
StoreTimeout == "Query read timeout"
StoreUnavailable == "Connection terminated unexpectedly"
StoreErrors == {StoreTimeout, StoreUnavailable}

\* The statements the handler awaits, as far as their first 100 characters.
SelectDecisionSql ==
  "SELECT id, objective, recommendation, confidence, signals, graph_relations\n       FROM decisions WHERE id = $1"
InsertApprovalSql ==
  "INSERT INTO approvals (id, decision_id, approved, confidence_adjustment, reward, timestamp, created_at)"
UpsertWeightSql ==
  "INSERT INTO learning_weights (id, source_type, source_id, target_type, target_value, weight, update_count, created_at, updated_at)"

\* The text of the query worker w is awaiting.  The trajectory upsert
\* starts with the same INSERT line as updateLearningWeight's.
AwaitedQuery(w) ==
  IF pc[w] = "parse" THEN SelectDecisionSql
  ELSE IF pc[w] = "insert" THEN InsertApprovalSql
  ELSE UpsertWeightSql

\* DatabaseClient.query's catch:
\* logger.error({ error, query: text.substring(0, 100) }, 'Query failed')
QueryFailedRecord(text, error) ==
  [msg |-> "Query failed", error |-> error, query |-> Substring0(text, 100)]

\* The handler's catch:
\* logger.error({ correlationId, error }, 'Failed to process approval').
\* The correlation id names the HTTP request; it is not modelled.
ProcessFailedRecord(error) ==
  [msg |-> "Failed to process approval", error |-> error]

\* Both catch blocks log the error and neither adds the query parameters.
Logged(w, error) ==
  errorLog' = [errorLog EXCEPT
     ![w] = <<QueryFailedRecord(AwaitedQuery(w), error),
              ProcessFailedRecord(error)>>]

\* Mutant: the catch block undoes the edge updates the event committed.
QueryThrowsRollback(w, error) ==
  /\ \/ pc[w] = "parse" /\ SchemaAccepts(body[w])
     \/ pc[w] \in {"insert", "edge"}
  /\ Returned(w, InternalError)
  /\ Logged(w, error)
  /\ learning_weights' =
       [k \in DOMAIN learning_weights
                 \ {applied[w][i] : i \in DOMAIN applied[w]}
          |-> learning_weights[k]]
  /\ history' =
       [k \in DOMAIN history \ {applied[w][i] : i \in DOMAIN applied[w]}
          |-> history[k]]
  /\ UNCHANGED <<process, deploys, client, decisions, approvals, nApprovals, nCreates, aux>>

\* The awaited query throws error and the catch block for an error that is
\* not a ZodError runs.  Nothing is undone; the response is 500
\* internal_error whatever the error was.
QueryThrows(w, error) ==
  /\ \/ pc[w] = "parse" /\ SchemaAccepts(body[w])
     \/ pc[w] \in {"insert", "edge"}
  /\ Returned(w, InternalError)
  /\ Logged(w, error)
  /\ UNCHANGED <<process, deploys, client, store, nApprovals, nCreates, aux>>

QueryFails(w) == \E error \in StoreErrors : QueryThrows(w, error)

\* Mutant: the handler does not test rows.length and goes on to the INSERT.
SelectNotFoundProceeds(w) ==
  /\ pc[w] = "parse"
  /\ SchemaAccepts(body[w])
  /\ CanonUuid(body[w].decision_id) \notin DOMAIN decisions
  /\ adjustedReward' = [adjustedReward EXCEPT
        ![w] = AdjustedReward(body[w].approved, body[w].confidence_adjustment)]
  /\ approvalId' = [approvalId EXCEPT ![w] = nApprovals]
  /\ pc' = [pc EXCEPT ![w] = "insert"]
  /\ UNCHANGED <<process, deploys, client, store, body, decision, recommendationType, edge,
                 weightsUpdated, applied, res, nApprovals, nCreates, aux,
                 errorLog>>

\* The body parses and SELECT ... FROM decisions WHERE id = $1 returns no
\* row: 404.
SelectNotFound(w) ==
  /\ pc[w] = "parse"
  /\ SchemaAccepts(body[w])
  /\ CanonUuid(body[w].decision_id) \notin DOMAIN decisions
  /\ Returned(w, NotFound)
  /\ UNCHANGED <<process, deploys, client, store, nApprovals, nCreates, aux,
                 errorLog>>

\* SELECT id, objective, recommendation, confidence, signals,
\* graph_relations FROM decisions: the columns of a row the handler loads.
Selected(row) ==
  [id |-> row.id, objective |-> row.objective,
   recommendation |-> row.recommendation, signals |-> row.signals]

\* The body parses and the SELECT returns the row; the reward is derived
\* and the handler awaits the INSERT INTO approvals.
SelectFound(w) ==
  /\ pc[w] = "parse"
  /\ SchemaAccepts(body[w])
  /\ CanonUuid(body[w].decision_id) \in DOMAIN decisions
  /\ decision' = [decision EXCEPT
        ![w] = Selected(decisions[CanonUuid(body[w].decision_id)])]
  /\ adjustedReward' = [adjustedReward EXCEPT
        ![w] = AdjustedReward(body[w].approved, body[w].confidence_adjustment)]
  /\ approvalId' = [approvalId EXCEPT ![w] = nApprovals]
  /\ pc' = [pc EXCEPT ![w] = "insert"]
  /\ UNCHANGED <<process, deploys, client, store, body, recommendationType, edge, weightsUpdated,
                 applied, res, nApprovals, nCreates, aux,
                 errorLog>>

\* The approvals row the handler inserts.
ApprovalRow(w) ==
  [id |-> approvalId[w],
   decision_id |-> CanonUuid(body[w].decision_id),
   approved |-> body[w].approved,
   confidence_adjustment |-> StoredAdjustment(body[w].confidence_adjustment),
   reward |-> adjustedReward[w]]

\* Mutant: the handler goes on to the edges without the approvals INSERT.
InsertApprovalSkipped(w) ==
  /\ pc[w] = "insert"
  /\ recommendationType' = [recommendationType EXCEPT
        ![w] = extractRecommendationType(decision[w].recommendation)]
  /\ pc' = [pc EXCEPT ![w] = "edge"]
  /\ edge' = [edge EXCEPT ![w] = 1]
  /\ weightsUpdated' = [weightsUpdated EXCEPT ![w] = 0]
  /\ UNCHANGED <<process, deploys, client, store, body, decision, adjustedReward, approvalId, applied,
                 res, nApprovals, nCreates, aux,
                 errorLog>>

\* Mutant: the statement replaces the newest approvals row.
InsertApprovalOverwrites(w) ==
  /\ pc[w] = "insert"
  /\ approvals' = IF approvals = << >> THEN <<ApprovalRow(w)>>
                  ELSE [approvals EXCEPT ![Len(approvals)] = ApprovalRow(w)]
  /\ recommendationType' = [recommendationType EXCEPT
        ![w] = extractRecommendationType(decision[w].recommendation)]
  /\ pc' = [pc EXCEPT ![w] = "edge"]
  /\ edge' = [edge EXCEPT ![w] = 1]
  /\ weightsUpdated' = [weightsUpdated EXCEPT ![w] = 0]
  /\ UNCHANGED <<process, deploys, client, decisions, learning_weights, history, body, decision,
                 adjustedReward, approvalId, applied, res, nApprovals,
                 nCreates, aux,
                 errorLog>>

\* INSERT INTO approvals succeeds; the recommendation type is extracted
\* and the handler awaits the first edge update.
InsertApproval(w) ==
  /\ pc[w] = "insert"
  /\ approvals' = Append(approvals, ApprovalRow(w))
  /\ recommendationType' = [recommendationType EXCEPT
        ![w] = extractRecommendationType(decision[w].recommendation)]
  /\ pc' = [pc EXCEPT ![w] = "edge"]
  /\ edge' = [edge EXCEPT ![w] = 1]
  /\ weightsUpdated' = [weightsUpdated EXCEPT ![w] = 0]
  /\ UNCHANGED <<process, deploys, client, decisions, learning_weights, history, body, decision,
                 adjustedReward, approvalId, applied, res, nApprovals,
                 nCreates, aux,
                 errorLog>>

\* One of the first five edge upserts succeeds; weightsUpdated++.
UpdateEdge(w) ==
  /\ pc[w] = "edge"
  /\ edge[w] < NumEdges
  /\ LET key == EdgeKey(edge[w], body[w].decision_id, decision[w],
                        recommendationType[w])
     IN /\ learning_weights' = Upsert(learning_weights, key, adjustedReward[w])
        /\ history' = Recorded(history, key, adjustedReward[w])
        /\ applied' = [applied EXCEPT ![w] = Append(@, key)]
  /\ weightsUpdated' = [weightsUpdated EXCEPT ![w] = @ + 1]
  /\ edge' = [edge EXCEPT ![w] = @ + 1]
  /\ UNCHANGED <<process, deploys, client, decisions, approvals, pc, body, decision, adjustedReward,
                 approvalId, recommendationType, res, nApprovals, nCreates,
                 aux,
                 errorLog>>

\* The trajectory upsert succeeds; weightsUpdated++ and the 201 response is
\* sent without a further await.
UpdateLastEdge(w) ==
  /\ pc[w] = "edge"
  /\ edge[w] = NumEdges
  /\ LET key == EdgeKey(edge[w], body[w].decision_id, decision[w],
                        recommendationType[w])
     IN /\ learning_weights' = Upsert(learning_weights, key, adjustedReward[w])
        /\ history' = Recorded(history, key, adjustedReward[w])
  /\ Returned(w, [status |-> 201,
                  id |-> approvalId[w],
                  decision_id |-> body[w].decision_id,
                  reward |-> adjustedReward[w],
                  weights_updated |-> weightsUpdated[w] + 1,
                  learning_applied |-> TRUE])
  /\ UNCHANGED <<process, deploys, client, decisions, approvals, nApprovals, nCreates, aux,
                 errorLog>>

\* -------------------------------------------------- listDecisionsHandler
\* Number.parseInt(s, 10): white space, a sign, then the leading decimal
\* digits; NaN (Absent) when there is none.
ParseInt(s) ==
  LET t == TrimStart(s)
      signed == Len(t) > 0 /\ SubSeq(t, 1, 1) \in {"-", "+"}
      u == IF signed THEN SubSeq(t, 2, Len(t)) ELSE t
      n == LeadingDigits(u)
      v == DigitsValue(SubSeq(u, 1, n))
  IN IF n = 0 THEN Absent
     ELSE IF signed /\ SubSeq(t, 1, 1) = "-" THEN Some(-v) ELSE Some(v)

\* x || d for a number x: d when x is NaN or 0.
OrDefault(x, d) == IF Truthy(x) THEN x[1] ELSE d

Min(a, b) == IF a <= b THEN a ELSE b
Max(a, b) == IF a >= b THEN a ELSE b

\* const { objective, limit = '50', offset = '0' } = req.query
LimitParam(q) == IF q.limit = Absent THEN "50" ELSE q.limit[1]
OffsetParam(q) == IF q.offset = Absent THEN "0" ELSE q.offset[1]

\* Math.min(Math.max(parseInt(limit, 10) || 50, 1), 1000)
ParsedLimit(q) == Min(Max(OrDefault(ParseInt(LimitParam(q)), 50), 1), 1000)

\* Math.max(parseInt(offset, 10) || 0, 0)
ParsedOffset(q) == Max(OrDefault(ParseInt(OffsetParam(q)), 0), 0)

\* objective && typeof objective === 'string' && objective.trim().length > 0
HasFilter(q) ==
  IF q.objective = Absent THEN FALSE ELSE Len(Trim(q.objective[1])) > 0

\* The rows of decisions the WHERE clause keeps.
WhereClause(q, table) ==
  {table[d] : d \in {x \in DOMAIN table :
     HasFilter(q) => ILikeContains(table[x].objective, Trim(q.objective[1]))}}

\* Mutant: the count is taken over the requested page.
CountQueryOfPage(q, table) ==
  Min(Cardinality(WhereClause(q, table)), ParsedLimit(q))

\* SELECT COUNT(*) as total FROM decisions ${whereClause}
CountQuery(q, table) == Cardinality(WhereClause(q, table))

\* decisions d LEFT JOIN learning_weights lw ON lw.source_type = 'decision'
\* AND lw.source_id = d.id::text AND lw.target_type = 'recommendation':
\* one joined row per matching ledger row, and one with a null weight for
\* a decision that has none.
LeftJoin(ds, lws) ==
  UNION {
    LET hits == {k \in DOMAIN lws :
                   /\ SourceType(k) = "decision"
                   /\ SourceId(k) = d.id
                   /\ TargetType(k) = "recommendation"}
    IN IF hits = {}
       THEN {[id |-> d.id, created_at |-> d.created_at, weight |-> Null,
              lw |-> Null]}
       ELSE UNION {
              {[id |-> d.id, created_at |-> d.created_at,
                weight |-> Some(lws[k][i].weight),
                lw |-> <<TargetValue(k), i>>] : i \in 1..Len(lws[k])}
              : k \in hits }
    : d \in ds }

\* COALESCE(lw.weight, 0)
Coalesce(x, d) == IF x = Null THEN d ELSE x[1]

\* ORDER BY COALESCE(lw.weight, 0) DESC, d.created_at DESC
SortsBefore(x, y) ==
  \/ Coalesce(x.weight, 0) > Coalesce(y.weight, 0)
  \/ /\ Coalesce(x.weight, 0) = Coalesce(y.weight, 0)
     /\ x.created_at >= y.created_at

RECURSIVE OrderBy(_)
OrderBy(rows) ==
  IF rows = {} THEN << >>
  ELSE LET first == CHOOSE x \in rows : \A y \in rows : SortsBefore(x, y)
       IN <<first>> \o OrderBy(rows \ {first})

\* LIMIT n OFFSET m
LimitOffset(rows, n, m) ==
  IF m >= Len(rows) THEN << >> ELSE SubSeq(rows, m + 1, Min(m + n, Len(rows)))

\* The select query; of each row the response keeps the decision's columns,
\* here its id.
SelectQuery(q, ds, lws) ==
  LET page == LimitOffset(OrderBy(LeftJoin(WhereClause(q, ds), lws)),
                          ParsedLimit(q), ParsedOffset(q))
  IN [i \in 1..Len(page) |-> page[i].id]

\* Queries of GET /v1/decisions.  The limit "0" is falsy once parsed,
\* "2000" is above the cap, "1x" parses to 1 and "abc" to NaN.
ListRequests ==
  { NoQuery,
    [objective |-> Absent, limit |-> Some("1"), offset |-> Some("1")],
    [objective |-> Some(" SHIP "), limit |-> Some("0"),
     offset |-> Some("-1")],
    [objective |-> Some("  "), limit |-> Some("2000"), offset |-> Absent],
    [objective |-> Some("Budget"), limit |-> Some("1x"),
     offset |-> Some("abc")],
    [objective |-> Absent, limit |-> Some("-3"), offset |-> Some("0")] }

\* The route calls listDecisionsHandler(req, res, dbClient); the pagination
\* is parsed and the handler awaits the count query.
ListReceive(q) ==
  /\ listPc = "idle"
  /\ listPc' = "count"
  /\ listReq' = q
  /\ total' = 0
  /\ listRes' = NoResponse
  /\ UNCHANGED <<process, deploys, client, store, approver, nCreates, calc>>

\* The count query returns; the handler awaits the select query.
ListCount ==
  /\ listPc = "count"
  /\ total' = CountQuery(listReq, decisions)
  /\ listPc' = "select"
  /\ UNCHANGED <<process, deploys, client, store, approver, nCreates, listReq, listRes, calc>>

\* The select query returns; the 200 response is sent.
ListSelect ==
  /\ listPc = "select"
  /\ listRes' = [status |-> 200,
                 data |-> SelectQuery(listReq, decisions, learning_weights),
                 total |-> total,
                 limit |-> ParsedLimit(listReq),
                 offset |-> ParsedOffset(listReq)]
  /\ listPc' = "idle"
  /\ listReq' = NoQuery
  /\ total' = 0
  /\ UNCHANGED <<process, deploys, client, store, approver, nCreates, calc>>

\* One of the two queries throws: 500 internal_error.
ListFails ==
  /\ listPc \in {"count", "select"}
  /\ listRes' = InternalError
  /\ listPc' = "idle"
  /\ listReq' = NoQuery
  /\ total' = 0
  /\ UNCHANGED <<process, deploys, client, store, approver, nCreates, calc>>

Next ==
  \/ \E b \in CreateBodies : CreateDecision(b)
  \/ \E w \in Workers, b \in ApprovalBodies : Receive(w, b)
  \/ \E w \in Workers : ParseRejected(w)
  \/ \E w \in Workers : QueryFails(w)
  \/ \E w \in Workers : SelectNotFound(w)
  \/ \E w \in Workers : SelectFound(w)
  \/ \E w \in Workers : InsertApproval(w)
  \/ \E w \in Workers : UpdateEdge(w)
  \/ \E w \in Workers : UpdateLastEdge(w)

Spec == Init /\ [][Next]_vars

\* ----------------------------------------------------------- VectorClient
\* Every method of the client is an async function without an await: a
\* call runs from checkCircuit to recordSuccess or recordFailure in one
\* turn of the event loop, so a call is one step.  callResult.checked
\* keeps the circuitState that checkCircuit left, the value the field has
\* while the try block runs.

\* Mutant: an open breaker lets the call through.
checkCircuitNeverThrows(c, t) == [client |-> c, thrown |-> FALSE]

\* checkCircuit at time t: the client it leaves and whether it throws
\* 'Circuit breaker is open - RuvVector unavailable'.
checkCircuit(c, t) ==
  IF c.circuitState = OPEN
  THEN IF t - c.lastFailureTime >= c.circuitConfig.timeout
       THEN [client |-> [c EXCEPT !.circuitState = HALF_OPEN],
             thrown |-> FALSE]
       ELSE [client |-> c, thrown |-> TRUE]
  ELSE [client |-> c, thrown |-> FALSE]

\* Mutant: the half-open breaker closes but keeps its failure count.
recordSuccessKeepsCount(c) ==
  IF c.circuitState = HALF_OPEN
  THEN [c EXCEPT !.circuitState = CLOSED]
  ELSE c

\* Mutant: every success clears the failure count (consecutive failures).
recordSuccessClearsCount(c) ==
  IF c.circuitState = HALF_OPEN
  THEN [c EXCEPT !.circuitState = CLOSED, !.failureCount = 0]
  ELSE [c EXCEPT !.failureCount = 0]

recordSuccess(c) ==
  IF c.circuitState = HALF_OPEN
  THEN [c EXCEPT !.circuitState = CLOSED, !.failureCount = 0]
  ELSE c

recordFailure(c, t) ==
  LET counted == [c EXCEPT !.failureCount = @ + 1, !.lastFailureTime = t]
  IN IF c.circuitState = HALF_OPEN
     THEN [counted EXCEPT !.circuitState = OPEN]
     ELSE IF counted.failureCount >= c.circuitConfig.threshold
          THEN [counted EXCEPT !.circuitState = OPEN]
          ELSE counted

CircuitOpenError == "Circuit breaker is open - RuvVector unavailable"
TypeError == "TypeError"
Resolved == "resolved"

\* The arguments of a call: the objects the signature names, or undefined
\* in their place.
Arguments == {"defined", "undefined"}

\* The try block of a method.  The backend call is a stub that cannot
\* fail; what can throw is the logger.debug line, which reads
\* vector.length, Object.keys(metadata), params.id, params.vector or
\* params.contextVectors.length.  run_prediction reads typeof input only.
TryThrows(op, args) == op # "run_prediction" /\ args = "undefined"

\* A method guarded by the breaker, called with args.
Guarded(op, args) ==
  /\ callResult.n < MaxCalls
  /\ LET checked == checkCircuit(vectorClient, now)
         settled(outcome, attempted) ==
           [n |-> callResult.n + 1, op |-> op, args |-> args,
            outcome |-> outcome, attempted |-> attempted,
            checked |-> checked.client.circuitState]
     IN IF checked.thrown
        THEN /\ vectorClient' = checked.client
             /\ callResult' = settled(CircuitOpenError, FALSE)
        ELSE IF TryThrows(op, args)
        THEN /\ vectorClient' = recordFailure(checked.client, now)
             /\ callResult' = settled(TypeError, TRUE)
        ELSE /\ vectorClient' = recordSuccess(checked.client)
             /\ callResult' = settled(Resolved, TRUE)
  /\ UNCHANGED <<process, deploys, store, approver, nCreates, aux, now, retry>>

upsert(args) == Guarded("upsert", args)
insert(args) == Guarded("insert", args)
query(args) == Guarded("query", args)
similarity(args) == Guarded("similarity", args)
run_prediction(args) == Guarded("run_prediction", args)

\* Mutant: connect leaves the breaker as it is.
connectKeepsBreaker ==
  /\ callResult.n < MaxCalls
  /\ vectorClient' = [vectorClient EXCEPT !.connected = TRUE]
  /\ callResult' = [n |-> callResult.n + 1, op |-> "connect",
                    outcome |-> Resolved, attempted |-> FALSE]
  /\ UNCHANGED <<process, deploys, store, approver, nCreates, aux, now, retry>>

\* connect(): a stub that marks the client connected and resets the
\* breaker.
connect ==
  /\ callResult.n < MaxCalls
  /\ vectorClient' = [vectorClient EXCEPT !.connected = TRUE,
                                          !.circuitState = CLOSED,
                                          !.failureCount = 0]
  /\ callResult' = [n |-> callResult.n + 1, op |-> "connect",
                    outcome |-> Resolved, attempted |-> FALSE]
  /\ UNCHANGED <<process, deploys, store, approver, nCreates, aux, now, retry>>

\* ping(): an open breaker that has not waited answers false; otherwise
\* the stub succeeds.
ping ==
  /\ callResult.n < MaxCalls
  /\ LET checked == checkCircuit(vectorClient, now)
     IN IF checked.thrown
        THEN /\ vectorClient' = checked.client
             /\ callResult' = [n |-> callResult.n + 1, op |-> "ping",
                               outcome |-> FALSE, attempted |-> FALSE,
                               checked |-> checked.client.circuitState]
        ELSE /\ vectorClient' = recordSuccess(checked.client)
             /\ callResult' = [n |-> callResult.n + 1, op |-> "ping",
                               outcome |-> TRUE, attempted |-> TRUE,
                               checked |-> checked.client.circuitState]
  /\ UNCHANGED <<process, deploys, store, approver, nCreates, aux, now, retry>>

\* Time passes.
Tick ==
  /\ now < MaxNow
  /\ now' = now + 1
  /\ UNCHANGED <<process, deploys, store, approver, nCreates, aux, vectorClient, callResult,
                 retry>>

\* ------------------------------------------------------- specifications
AllIdle == \A w \in Workers : pc[w] = "idle"

\* One approval request at a time, every input; a query that fails has lost
\* its connection.
ReceiveAlone(b) ==
  /\ AllIdle
  /\ Receive("w1", b)

NextSerial ==
  \/ \E b \in CreateBodies : CreateDecision(b)
  \/ \E b \in ApprovalBodies : ReceiveAlone(b)
  \/ \E w \in Workers : ParseRejected(w)
  \/ \E w \in Workers : QueryThrows(w, StoreUnavailable)
  \/ \E w \in Workers : SelectNotFound(w)
  \/ \E w \in Workers : SelectFound(w)
  \/ \E w \in Workers : InsertApproval(w)
  \/ \E w \in Workers : UpdateEdge(w)
  \/ \E w \in Workers : UpdateLastEdge(w)

SpecSerial == Init /\ [][NextSerial]_vars

\* One approval request at a time, without a confidence adjustment; a
\* query that fails has timed out or has lost its connection.
FaultBodies == {b \in ApprovalBodies : b.confidence_adjustment = Absent}

NextFaults ==
  \/ \E b \in CreateBodies : CreateDecision(b)
  \/ \E b \in FaultBodies : ReceiveAlone(b)
  \/ \E w \in Workers : ParseRejected(w)
  \/ \E w \in Workers : QueryFails(w)
  \/ \E w \in Workers : SelectNotFound(w)
  \/ \E w \in Workers : SelectFound(w)
  \/ \E w \in Workers : InsertApproval(w)
  \/ \E w \in Workers : UpdateEdge(w)
  \/ \E w \in Workers : UpdateLastEdge(w)

SpecFaults == Init /\ [][NextFaults]_vars

\* Overlapping approval requests on one decision; a query that fails has
\* lost its connection.
OverlapBodies ==
  {b \in ApprovalBodies :
     /\ b.decision_id \in {"d1", "D1"}
     /\ SchemaAccepts(b)
     /\ b.confidence_adjustment # Some(0)}

CreateOnce(b) ==
  /\ b.id = "d1"
  /\ decisions = << >>
  /\ CreateDecision(b)

NextOverlap ==
  \/ \E b \in CreateBodies : CreateOnce(b)
  \/ \E w \in Workers, b \in OverlapBodies : Receive(w, b)
  \/ \E w \in Workers : QueryThrows(w, StoreUnavailable)
  \/ \E w \in Workers : SelectNotFound(w)
  \/ \E w \in Workers : SelectFound(w)
  \/ \E w \in Workers : InsertApproval(w)
  \/ \E w \in Workers : UpdateEdge(w)
  \/ \E w \in Workers : UpdateLastEdge(w)

SpecOverlap == Init /\ [][NextOverlap]_vars

\* Listings interleaved with decision creations and approvals.
ListedBodies ==
  {b \in ApprovalBodies :
     /\ b.decision_id = "d1"
     /\ b.confidence_adjustment = Absent}

NextList ==
  \/ \E b \in CreateBodies : CreateDecision(b)
  \/ \E b \in ListedBodies : ReceiveAlone(b)
  \/ \E w \in Workers : SelectNotFound(w)
  \/ \E w \in Workers : SelectFound(w)
  \/ \E w \in Workers : InsertApproval(w)
  \/ \E w \in Workers : UpdateEdge(w)
  \/ \E w \in Workers : UpdateLastEdge(w)
  \/ \E q \in ListRequests : ListReceive(q)
  \/ ListCount
  \/ ListSelect
  \/ ListFails

SpecList == Init /\ [][NextList]_vars

\* The EMA update applied repeatedly to one row with a constant reward.
\* Weights and rewards of [-2, 2] in steps of a quarter.
WeightGrid == {n * (One \div 4) : n \in -8..8}

InitEma ==
  /\ Started
  /\ calc \in {[of |-> "ema", reward |-> r, steps |-> 0,
                row |-> [weight |-> w, update_count |-> 1]] :
                 r \in WeightGrid, w \in WeightGrid}

EmaStep ==
  /\ calc.of = "ema"
  /\ calc.steps < MaxSteps
  /\ calc' = [calc EXCEPT !.row = OnConflictUpdate(calc.row, calc.reward),
                          !.steps = @ + 1]
  /\ UNCHANGED <<process, deploys, client, store, approver, nCreates, listPc, listReq, total, listRes>>

NextEma == EmaStep

SpecEma == InitEma /\ [][NextEma]_vars

\* The six edge updates of one approval event applied in any order.
\* The table after the updates from..NumEdges in the order of the handler.
RECURSIVE UpdateEdgesFrom(_, _, _, _, _)
UpdateEdgesFrom(table, from, decision_id, dec, reward) ==
  IF from > NumEdges THEN table
  ELSE UpdateEdgesFrom(
         Upsert(table,
                EdgeKey(from, decision_id, dec,
                        extractRecommendationType(dec.recommendation)),
                reward),
         from + 1, decision_id, dec, reward)

\* The decisions row a create request stores.
StoredRow(b) ==
  [id |-> CanonUuid(b.id), objective |-> b.objective,
   recommendation |-> b.recommendation, signals |-> b.signals,
   created_at |-> 1]

\* Ledgers an event may find: empty, or written by one earlier event.
StartTables ==
  {NoRows} \cup
  {UpdateEdgesFrom(NoRows, 1, b.id, StoredRow(b), -One) : b \in CreateBodies}

InitOrder ==
  /\ Started
  /\ calc \in {[of |-> "order", start |-> t, table |-> t,
                todo |-> 1..NumEdges, decision_id |-> b.id,
                dec |-> StoredRow(b), reward |-> r] :
                 t \in StartTables, b \in CreateBodies,
                 r \in {One, 2 * One}}

UpdateAnyEdge(i) ==
  /\ calc.of = "order"
  /\ i \in calc.todo
  /\ calc' = [calc EXCEPT
       !.table = Upsert(calc.table,
                        EdgeKey(i, calc.decision_id, calc.dec,
                                extractRecommendationType(
                                  calc.dec.recommendation)),
                        calc.reward),
       !.todo = @ \ {i}]
  /\ UNCHANGED <<process, deploys, client, store, approver, nCreates, listPc, listReq, total, listRes>>

NextOrder == \E i \in 1..NumEdges : UpdateAnyEdge(i)

SpecOrder == InitOrder /\ [][NextOrder]_vars

\* ------------------------------------------------------------ properties
Range(f) == {f[i] : i \in DOMAIN f}

\* The EMA rule of the specification folded over rewards in order: the
\* first reward seeds the weight, each later one moves it a tenth of the
\* way.  The result is scaled by 10^(n-1), so no rounding is involved:
\* w(k) = 0.9 w(k-1) + 0.1 r(k).
RECURSIVE ScaledEma(_)
ScaledEma(rewards) ==
  IF Len(rewards) = 1 THEN rewards[1]
  ELSE 9 * ScaledEma(SubSeq(rewards, 1, Len(rewards) - 1))
       + Pow10(Len(rewards) - 2) * rewards[Len(rewards)]

\* C1: for any approval events that concurrently update one edge, the
\* edge's update_count is the number of updates applied to it and its
\* weight is the EMA rule folded over their rewards in a serial order (the
\* order in which the store committed them): no update is lost and none is
\* computed from a stale weight.
C1_UpdatesLinearized ==
  /\ LedgerKeys = DOMAIN history
  /\ \A k \in LedgerKeys :
       /\ LedgerRow(k).update_count = Len(history[k])
       /\ Pow10(Len(history[k]) - 1) * LedgerRow(k).weight
            = ScaledEma(history[k])

\* Two events in flight at once have both committed an update of one edge,
\* with different rewards.
C1_Witness ==
  /\ pc["w1"] = "edge" /\ pc["w2"] = "edge"
  /\ adjustedReward["w1"] # adjustedReward["w2"]
  /\ \E k \in Range(applied["w1"]) \cap Range(applied["w2"]) :
       LedgerRow(k).update_count = 2

\* Worker w takes a step of its handler.
WorkerStep(w) == <<pc[w], edge[w]>> # <<pc[w], edge[w]>>'

\* The ledger keys whose row a step creates or changes.
ChangedKeys ==
  {k \in LedgerKeys' :
     k \notin LedgerKeys
       \/ LedgerRow(k)' # LedgerRow(k)}

\* C2: applyReward on a key with no row creates it with weight = reward and
\* update_count = 1; on a row with weight w and count c it sets
\* weight = w + 0.1 * (reward - w) and update_count = c + 1 (1.0 then
\* reward 1.0 stays 1.0, 1.0 then reward -1.0 gives 0.8); an existing row
\* is never overwritten with the raw reward.
C2_ApplyReward ==
  [][\A w \in Workers : \A k \in ChangedKeys :
       (pc[w] = "edge" /\ WorkerStep(w)) =>
         LET reward == adjustedReward[w]
             new == LedgerRow(k)'
         IN IF k \notin LedgerKeys
            THEN new.weight = reward /\ new.update_count = 1
            ELSE LET old == LedgerRow(k) IN
                 /\ 10 * (new.weight - old.weight) = reward - old.weight
                 /\ new.update_count = old.update_count + 1
                 /\ (old.weight = One /\ reward = One) => new.weight = One
                 /\ (old.weight = One /\ reward = -One)
                      => 10 * new.weight = 8 * One
                 /\ reward # old.weight => new.weight # reward]_vars

\* A row seeded with 1.0 and then given reward -1.0 holds 0.8, count 2.
C2_Witness ==
  \E k \in LedgerKeys :
    /\ history[k] = <<One, -One>>
    /\ LedgerRow(k).update_count = 2
    /\ 10 * LedgerRow(k).weight = 8 * One

\* Worker w's awaited edge upsert throws in this step: the handler leaves
\* the edge without the ledger having changed.
EdgeUpdateFails(w) ==
  /\ pc[w] = "edge"
  /\ WorkerStep(w)
  /\ learning_weights' = learning_weights

\* C3 (the claim as stated): when the approval is persisted and only k < 6
\* of its edge updates succeed, recordApproval still returns its normal
\* result, reporting weights_updated = k.
C3_PartialResultReported ==
  [][\A w \in Workers :
       (EdgeUpdateFails(w) /\ pc'[w] = "idle") =>
         /\ res'[w].status = 201
         /\ res'[w].weights_updated = weightsUpdated[w]]_vars

\* C4 (the claim as stated): a store failure on one edge of an event does
\* not keep the remaining edges of that event from being attempted.
C4_RemainingEdgesAttempted ==
  [][\A w \in Workers :
       (EdgeUpdateFails(w) /\ edge[w] < NumEdges) =>
         /\ pc'[w] = "edge"
         /\ edge'[w] = edge[w] + 1]_vars

\* C5: when an edge update of an event fails, the edges the event already
\* committed keep their new weight and update_count, and no other row of
\* the ledger or of the approvals table changes.
C5_NoRollback ==
  [][\A w \in Workers :
       (pc[w] = "edge" /\ WorkerStep(w) /\ res'[w] = InternalError) =>
         /\ \A k \in Range(applied[w]) :
              /\ k \in LedgerKeys'
              /\ LedgerRow(k)' = LedgerRow(k)
         /\ learning_weights' = learning_weights
         /\ approvals' = approvals]_vars

\* One event, answered 500, whose approval and first three edges are kept.
C5_Witness ==
  /\ nApprovals = 1
  /\ \E w \in Workers : res[w] = InternalError
  /\ Len(approvals) = 1
  /\ Cardinality(LedgerKeys) = 3

\* C6: an approval whose decision_id matches no decision is answered 404
\* not_found (500 when the SELECT itself fails) and writes nothing: the
\* approvals and learning_weights tables are left as they were.
C6_NotFoundWritesNothing ==
  [][\A w \in Workers :
       ( /\ pc[w] = "parse"
         /\ WorkerStep(w)
         /\ IsUuid(body[w].decision_id)
         /\ ValidAdjustment(body[w].confidence_adjustment)
         /\ \A d \in DOMAIN decisions :
              ToLowerCase(d) # ToLowerCase(body[w].decision_id) ) =>
         /\ pc'[w] = "idle"
         /\ res'[w] # InternalError =>
              (res'[w].status = 404 /\ res'[w].error = "not_found")
         /\ approvals' = approvals
         /\ learning_weights' = learning_weights]_vars

\* A request for e2 was answered 404 while only d1 exists; nothing written.
C6_Witness ==
  /\ DOMAIN decisions = {"d1"}
  /\ nApprovals = 1
  /\ \E w \in Workers : res[w].status = 404
  /\ approvals = << >>
  /\ learning_weights = NoRows

\* C7: an approval whose confidence_adjustment is outside [-1, 1] is
\* answered 400 validation_error and leaves the store unchanged.
C7_OutOfRangeRejected ==
  [][\A w \in Workers :
       ( /\ pc[w] = "parse"
         /\ WorkerStep(w)
         /\ body[w].confidence_adjustment # Absent
         /\ \/ body[w].confidence_adjustment[1] < -One
            \/ body[w].confidence_adjustment[1] > One ) =>
         /\ pc'[w] = "idle"
         /\ res'[w].status = 400
         /\ res'[w].error = "validation_error"
         /\ decisions' = decisions
         /\ approvals' = approvals
         /\ learning_weights' = learning_weights]_vars

\* A 400 naming confidence_adjustment was sent while a decision exists.
C7_Witness ==
  /\ decisions # << >>
  /\ \E w \in Workers :
       /\ res[w].status = 400
       /\ res[w].details = <<"confidence_adjustment">>

\* The reward the specification derives, in fixed point: base * (1 + adj),
\* base alone when the adjustment is absent.
SpecReward(approved, adj) ==
  LET base == IF approved THEN 1 ELSE -1
  IN IF adj = Absent THEN base * One ELSE base * (One + adj[1])

\* Adjustments of [-1, 1] in steps of a tenth.
AdjustmentGrid == {Some(n * (One \div 10)) : n \in -10..10}

\* C8: for every approved and every adjustment absent or in [-1, 1] the
\* reward is base * (1 + adjustment), base = +1 or -1 (0 keeps base, -1
\* gives 0, +1 doubles it); and that one value is stored in the approval
\* row, applied to every edge of the event and returned to the caller.
C8_RewardDerivedAndUsed ==
  /\ [](\A approved \in BOOLEAN : \A adj \in AdjustmentGrid \cup {Absent} :
          AdjustedReward(approved, adj) = SpecReward(approved, adj))
  /\ [](/\ AdjustedReward(TRUE, Some(0)) = One
        /\ AdjustedReward(FALSE, Some(0)) = -One
        /\ AdjustedReward(TRUE, Some(-One)) = 0
        /\ AdjustedReward(FALSE, Some(-One)) = 0
        /\ AdjustedReward(TRUE, Some(One)) = 2 * One
        /\ AdjustedReward(FALSE, Some(One)) = -(2 * One))
  /\ [][\A w \in Workers : WorkerStep(w) =>
          LET reward == SpecReward(body[w].approved,
                                   body[w].confidence_adjustment)
          IN /\ (pc[w] = "insert" /\ pc'[w] = "edge") =>
                  /\ Len(approvals') = Len(approvals) + 1
                  /\ approvals'[Len(approvals')].reward = reward
             /\ pc[w] = "edge" =>
                  \A k \in ChangedKeys :
                    history'[k][Len(history'[k])] = reward
             /\ (pc[w] = "edge" /\ res'[w].status = 201) =>
                  res'[w].reward = reward]_vars

\* An approval with adjustment +1 was stored, applied and returned as 2.0.
C8_Witness ==
  /\ \E w \in Workers : res[w].status = 201 /\ res[w].reward = 2 * One
  /\ \E i \in DOMAIN approvals :
       /\ approvals[i].reward = 2 * One
       /\ approvals[i].confidence_adjustment = Some(One)
  /\ \E k \in DOMAIN history : history[k] = <<2 * One>>

\* The six ledger keys the specification derives for an approval of
\* decision d (as named in the request) whose loaded row is dec.
SpecEdgeKeys(d, dec) ==
  LET T == extractRecommendationType(dec.recommendation) IN
  { <<"decision", d, "recommendation", T>>,
    <<"signal", "financial:" \o Substring0(dec.signals.financial, 50),
      "recommendation", T>>,
    <<"signal", "risk:" \o Substring0(dec.signals.risk, 50),
      "recommendation", T>>,
    <<"signal", "complexity:" \o Substring0(dec.signals.complexity, 50),
      "recommendation", T>>,
    <<"objective", Substring0(dec.objective, 200), "recommendation", T>>,
    <<"decision", "trajectory:" \o d, "recommendation", "pattern:" \o T>> }

\* C9: a fully successful approval event updates exactly the six keys
\* (decision, d, T), the three signal keys, the objective key and the
\* trajectory key, each by exactly one applyReward with the event's
\* reward; the event changes no other ledger row; weights_updated = 6.
C9_ExactlySixEdges ==
  [][\A w \in Workers : (pc[w] = "edge" /\ WorkerStep(w)) =>
       LET keys == SpecEdgeKeys(body[w].decision_id, decision[w]) IN
       /\ Cardinality(keys) = 6
       /\ res'[w] # InternalError =>
            /\ Cardinality(ChangedKeys) = 1
            /\ ChangedKeys \subseteq keys \ Range(applied[w])
            /\ \A k \in ChangedKeys :
                 /\ Len(history'[k]) =
                      (IF k \in DOMAIN history THEN Len(history[k]) ELSE 0) + 1
                 /\ history'[k][Len(history'[k])] = adjustedReward[w]
       /\ res'[w].status = 201 =>
            /\ Range(applied[w]) \cup ChangedKeys = keys
            /\ Len(applied[w]) = 5
            /\ res'[w].weights_updated = 6]_vars

\* An event on the long-text decision completed with weights_updated = 6.
C9_Witness ==
  /\ \E w \in Workers : res[w].status = 201 /\ res[w].weights_updated = 6
  /\ \E k \in LedgerKeys :
       k[1] = "objective" /\ Len(k[2]) = 200

\* The scenario of C10: the only request so far is the approval
\* {decision_id: "d1", approved: true}, answered 201, and d1 is the only
\* decision, created once as "PROCEED: ship it".
C10_Scenario ==
  /\ nCreates = 1
  /\ DOMAIN decisions = {"d1"}
  /\ decisions["d1"].recommendation = "PROCEED: ship it"
  /\ nApprovals = 1
  /\ \E w \in Workers : res[w].status = 201 /\ res[w].decision_id = "d1"
  /\ Len(approvals) = 1
  /\ approvals[1].approved
  /\ approvals[1].confidence_adjustment = Null

\* C10 (the claim as stated): after that approval exactly 4 distinct edges
\* have been written, each with weight 1.0 and update_count 1.
C10_FourEdges ==
  C10_Scenario =>
    /\ Cardinality(LedgerKeys) = 4
    /\ \A k \in LedgerKeys :
         LedgerRow(k) = [weight |-> One, update_count |-> 1]

\* C10 (amended): after that approval exactly 6 distinct edges have been
\* written, each with weight 1.0 and update_count 1.
C10_SixEdges ==
  C10_Scenario =>
    /\ Cardinality(LedgerKeys) = 6
    /\ \A k \in LedgerKeys :
         LedgerRow(k) = [weight |-> One, update_count |-> 1]

\* The scenario has happened.
C10_Witness ==
  /\ C10_Scenario
  /\ <<"decision", "trajectory:d1", "recommendation", "pattern:PROCEED">>
       \in LedgerKeys

\* C11: in every reachable state, also after concurrent first-touch updates
\* of one edge by different approval events, learning_weights holds at most
\* one row per key (source_type, source_id, target_type, target_value).
C11_OneRowPerKey ==
  \A key \in DOMAIN learning_weights :
    Len(RowsWithKey(learning_weights, key)) <= 1

\* Two events in flight have each just made their first edge update, on
\* the same key, which no earlier event had touched: the key has one row.
C11_Witness ==
  /\ pc["w1"] = "edge" /\ pc["w2"] = "edge"
  /\ edge["w1"] = 2 /\ edge["w2"] = 2
  /\ applied["w1"] = applied["w2"]
  /\ Len(history[applied["w1"][1]]) = 2
  /\ Len(RowsWithKey(learning_weights, applied["w1"][1])) = 1

\* w(d) of the specification: the weight of the edge (decision, d.id) ->
\* extractRecommendationType(d.recommendation), 0 when there is none.
SpecWeight(d) ==
  LET k == <<"decision", d.id, "recommendation",
             extractRecommendationType(d.recommendation)>>
  IN IF k \in LedgerKeys THEN LedgerRow(k).weight ELSE 0

\* The decisions ds, each once, by (w(d) descending, created_at descending).
RECURSIVE SpecRanking(_)
SpecRanking(ds) ==
  IF ds = {} THEN << >>
  ELSE LET first == CHOOSE x \in ds : \A y \in ds :
                      \/ SpecWeight(x) > SpecWeight(y)
                      \/ /\ SpecWeight(x) = SpecWeight(y)
                         /\ x.created_at >= y.created_at
       IN <<first.id>> \o SpecRanking(ds \ {first})

\* C12 (the claim as stated): listDecisions returns the decisions matching
\* the filter ordered by (w(d) descending, created_at descending), w(d)
\* being the weight of exactly the edge (decision, d.id) ->
\* extractRecommendationType(d.recommendation), or 0 without that edge.
C12_RankedByOwnEdge ==
  [][(listPc = "select" /\ listRes'.status = 200) =>
       listRes'.data =
         LimitOffset(SpecRanking(WhereClause(listReq, decisions)),
                     ParsedLimit(listReq), ParsedOffset(listReq))]_vars

\* C13 (the claim as stated): a decision is immutable after creation: no
\* later operation, a second create with the same id included, changes
\* the stored row.
C13_DecisionImmutable ==
  [][\A d \in DOMAIN decisions :
       /\ d \in DOMAIN decisions'
       /\ decisions'[d] = decisions[d]]_vars

\* The decisions whose objective contains the filter's trimmed text, in
\* any letter case; all of them when the filter is missing or blank.
SpecMatching(q) ==
  {d \in DOMAIN decisions :
     \/ q.objective = Absent
     \/ Trim(q.objective[1]) = ""
     \/ LET part == Trim(q.objective[1])
            text == decisions[d].objective
        IN \E i \in 1..Len(text) :
             /\ i + Len(part) - 1 <= Len(text)
             /\ ToUpperCase(SubSeq(text, i, i + Len(part) - 1))
                  = ToUpperCase(part)}

ApprovalsOf(d) == {i \in DOMAIN approvals : approvals[i].decision_id = d}

\* The direct decision edges of d: the keys (decision, d, *), d written in
\* either letter case.
DirectEdges(d) ==
  {k \in DOMAIN learning_weights :
     /\ SourceType(k) = "decision"
     /\ IsUuid(SourceId(k))
     /\ CanonUuid(SourceId(k)) = d}

RECURSIVE SumUpdateCount(_)
SumUpdateCount(rows) ==
  IF rows = << >> THEN 0
  ELSE rows[1].update_count + SumUpdateCount(Tail(rows))

\* The update_count of every row under the keys, added up.
RECURSIVE TotalUpdateCount(_)
TotalUpdateCount(keys) ==
  IF keys = {} THEN 0
  ELSE LET k == CHOOSE k \in keys : TRUE
       IN SumUpdateCount(learning_weights[k]) + TotalUpdateCount(keys \ {k})

\* C14: for each decision the persisted approvals that reference it are at
\* least as many as the total update_count of its direct decision edges:
\* an event's approval row is persisted before any of its edge updates and
\* stays persisted when an edge update fails.
C14_ApprovalBeforeEdges ==
  /\ [](\A d \in DOMAIN decisions :
          Cardinality(ApprovalsOf(d)) >= TotalUpdateCount(DirectEdges(d)))
  /\ [][\A w \in Workers : (pc[w] = "edge" /\ WorkerStep(w)) =>
          \E i \in DOMAIN approvals :
            /\ approvals[i].id = approvalId[w]
            /\ approvals'[i] = approvals[i]]_vars

\* Two approvals of d1 are persisted, one event was answered 500 and the
\* direct edges of d1 count one update.
C14_Witness ==
  /\ "d1" \in DOMAIN decisions
  /\ Cardinality(ApprovalsOf("d1")) = 2
  /\ TotalUpdateCount(DirectEdges("d1")) = 1
  /\ \E w \in Workers : res[w] = InternalError

\* C15: the update_count of every ledger row is at least 1, never
\* decreases, and equals the number of updates committed on its key.
C15_UpdateCountCounts ==
  /\ [](\A k \in LedgerKeys :
          /\ LedgerRow(k).update_count >= 1
          /\ k \in DOMAIN history
          /\ LedgerRow(k).update_count = Len(history[k]))
  /\ [][\A k \in LedgerKeys :
          /\ k \in LedgerKeys'
          /\ LedgerRow(k)'.update_count >= LedgerRow(k).update_count]_vars

\* The ledger holds a row updated once and a row updated twice.
C15_Witness ==
  /\ \E k \in LedgerKeys : LedgerRow(k).update_count = 1
  /\ \E k \in LedgerKeys : LedgerRow(k).update_count = 2

\* C16: approvals is append-only: a successful approval adds exactly one
\* row, with an id no other row has; no step changes or removes a row; and
\* every row's decision_id is the id of a row of decisions.
C16_ApprovalsAppendOnly ==
  /\ [](\A i \in DOMAIN approvals :
          /\ approvals[i].decision_id \in DOMAIN decisions
          /\ \A j \in DOMAIN approvals :
               approvals[j].id = approvals[i].id => j = i)
  /\ [][/\ Len(approvals') \in {Len(approvals), Len(approvals) + 1}
        /\ \A i \in DOMAIN approvals : approvals'[i] = approvals[i]
        /\ \A w \in Workers :
             (pc[w] = "insert" /\ pc'[w] = "edge") =>
               /\ Len(approvals') = Len(approvals) + 1
               /\ approvals'[Len(approvals')].id = approvalId[w]
        /\ \A w \in Workers :
             (WorkerStep(w) /\ res'[w].status = 201) =>
               Cardinality({i \in DOMAIN approvals' :
                              approvals'[i].id = res'[w].id}) = 1]_vars

\* Two approvals of one decision are stored and the second was answered 201.
C16_Witness ==
  /\ Len(approvals) = 2
  /\ approvals[1].decision_id = approvals[2].decision_id
  /\ approvals[1].id # approvals[2].id
  /\ \E w \in Workers : res[w].status = 201 /\ res[w].id = approvals[2].id

\* C18: every weight lies between the smallest and the largest reward
\* applied to its edge, hence within [-2, 2].
C18_WeightWithinRewards ==
  \A k \in LedgerKeys :
    /\ \E i \in DOMAIN history[k] : history[k][i] <= LedgerRow(k).weight
    /\ \E i \in DOMAIN history[k] : history[k][i] >= LedgerRow(k).weight
    /\ LedgerRow(k).weight >= -(2 * One)
    /\ LedgerRow(k).weight <= 2 * One

\* An edge seeded with reward 2.0 and then given -1.0 holds 1.7.
C18_Witness ==
  \E k \in LedgerKeys :
    /\ history[k] = <<2 * One, -One>>
    /\ 10 * LedgerRow(k).weight = 17 * One

Abs(x) == IF x < 0 THEN -x ELSE x

\* C17: a constant reward r applied repeatedly to an edge moves its weight
\* toward r monotonically: each update leaves |w - r| no larger and w - r
\* of the same sign (no overshoot, no oscillation).
C17_MonotoneTowardReward ==
  [][calc.of = "ema" =>
       LET before == calc.row.weight - calc.reward
           after == calc'.row.weight - calc.reward
       IN /\ Abs(after) <= Abs(before)
          /\ before * after >= 0]_vars

\* A row three updates on, closer to the reward and not yet on it.
C17_Witness ==
  /\ calc.of = "ema"
  /\ calc.steps = 3
  /\ calc.reward = One
  /\ calc.row.weight > 0
  /\ calc.row.weight < One
  /\ calc.row.update_count = 4

\* C19: the ledger an approval event produces does not depend on the
\* order of its six edge updates: the six keys are pairwise distinct and
\* every order of the six upserts gives the rows the handler's order gives.
C19_EdgeOrderIrrelevant ==
  calc.of = "order" =>
    /\ Cardinality({EdgeKey(i, calc.decision_id, calc.dec,
                            extractRecommendationType(calc.dec.recommendation))
                      : i \in 1..NumEdges}) = NumEdges
    /\ calc.todo = {} =>
         calc.table = UpdateEdgesFrom(calc.start, 1, calc.decision_id,
                                     calc.dec, calc.reward)

\* The six updates are done on a ledger in which three of the keys had a
\* row and three had none.
C19_Witness ==
  /\ calc.of = "order"
  /\ calc.todo = {}
  /\ Cardinality({k \in DOMAIN calc.table :
                    calc.table[k][1].update_count = 2}) = 3
  /\ Cardinality({k \in DOMAIN calc.table :
                    /\ calc.table[k][1].update_count = 1
                    /\ calc.table[k][1].weight = calc.reward}) = 3

\* A query parameter that is written as an integer: an optional sign and
\* then decimal digits only.
IsIntegerText(s) ==
  LET u == IF Len(s) > 0 /\ SubSeq(s, 1, 1) \in {"-", "+"}
           THEN SubSeq(s, 2, Len(s)) ELSE s
  IN Len(u) > 0 /\ LeadingDigits(u) = Len(u)

\* The integer such a parameter is written as.
IntegerOfText(s) ==
  IF SubSeq(s, 1, 1) = "-" THEN 0 - DigitsValue(SubSeq(s, 2, Len(s)))
  ELSE IF SubSeq(s, 1, 1) = "+" THEN DigitsValue(SubSeq(s, 2, Len(s)))
  ELSE DigitsValue(s)

\* C21 (the claim as stated): for every requested integer limit and
\* offset the list uses limit min(max(limit, 1), 1000) and offset
\* max(offset, 0): a limit below 1 becomes 1, a limit above 1000 becomes
\* 1000 and a negative offset becomes 0.
C21_LimitOffsetClamped ==
  [][(listPc = "select" /\ listRes'.status = 200) =>
       /\ (listReq.limit # Absent /\ IsIntegerText(listReq.limit[1])) =>
            listRes'.limit =
              Min(Max(IntegerOfText(listReq.limit[1]), 1), 1000)
       /\ (listReq.offset # Absent /\ IsIntegerText(listReq.offset[1])) =>
            listRes'.offset = Max(IntegerOfText(listReq.offset[1]), 0)]_vars

\* A log record names an edge when it carries the edge's source type,
\* source id and target value.
IdentifiesEdge(record, key) ==
  /\ {"sourceType", "sourceId", "targetValue"} \subseteq DOMAIN record
  /\ record.sourceType = SourceType(key)
  /\ record.sourceId = SourceId(key)
  /\ record.targetValue = TargetValue(key)

\* C22 (the claim as stated): every edge update that fails during an
\* approval event produces a log record that identifies the failed edge
\* by its (sourceType, sourceId, targetValue).
C22_FailedEdgeLogged ==
  [][\A w \in Workers :
       (pc[w] = "edge" /\ WorkerStep(w) /\ res'[w] = InternalError) =>
         \E i \in DOMAIN errorLog'[w] :
           IdentifiesEdge(errorLog'[w][i],
                          EdgeKey(edge[w], body[w].decision_id, decision[w],
                                  recommendationType[w]))]_vars

\* Worker w's latest request ended in the catch block with this error.
FailedWith(w, error) ==
  /\ pc[w] = "idle"
  /\ errorLog[w] # << >>
  /\ errorLog[w][Len(errorLog[w])].error = error

\* C23 (the claim as stated): a store round-trip that times out during an
\* approval is surfaced to the caller as an outcome distinct from that of
\* other store failures: a request that failed on a timeout and one that
\* failed on another store error do not carry the same response.
C23_TimeoutDistinct ==
  \A v, w \in Workers :
    (FailedWith(v, StoreTimeout) /\ FailedWith(w, StoreUnavailable)) =>
      res[v] # res[w]

\* ------------------------------------------- extractRecommendationType
\* Recommendation texts: the five type names, a shortened one, a word that
\* is no type and the empty word, each in upper, lower and capitalised
\* letters, after nothing, a blank or a letter, and followed by nothing,
\* punctuation, a blank or further letters.
Capitalised(s) ==
  IF Len(s) = 0 THEN s
  ELSE ToUpperChar(SubSeq(s, 1, 1)) \o ToLowerCase(SubSeq(s, 2, Len(s)))

RecommendationWords ==
  {TypeTokens[i] : i \in 1..Len(TypeTokens)} \cup {"PROCEE", "MAYBE", ""}

RecommendationTexts ==
  {pre \o word \o post :
     pre \in {"", " ", "x"},
     word \in UNION {{w, ToLowerCase(w), Capitalised(w)} :
                       w \in RecommendationWords},
     post \in {"", ": ship it", " now", ", again", "ED", "ing"}}

InitExtract ==
  /\ Started
  /\ calc \in {[of |-> "extract", recommendation |-> s, done |-> FALSE,
                type |-> ""] : s \in RecommendationTexts}

\* The handler's call extractRecommendationType(decision.recommendation).
ExtractStep ==
  /\ calc.of = "extract"
  /\ ~calc.done
  /\ calc' = [calc EXCEPT
                !.type = extractRecommendationType(calc.recommendation),
                !.done = TRUE]
  /\ UNCHANGED <<process, deploys, client, store, approver, nCreates, listPc, listReq, total, listRes>>

NextExtract == ExtractStep

SpecExtract == InitExtract /\ [][NextExtract]_vars

\* The letters of the alphabet, in both cases.
Letters ==
  {Lowers[i] : i \in 1..Len(Lowers)} \cup {Uppers[i] : i \in 1..Len(Uppers)}

\* The leading token of a text: its longest prefix made of letters.
RECURSIVE LeadingToken(_)
LeadingToken(s) ==
  IF Len(s) = 0 \/ SubSeq(s, 1, 1) \notin Letters THEN ""
  ELSE SubSeq(s, 1, 1) \o LeadingToken(SubSeq(s, 2, Len(s)))

\* C24 (the claim as stated): extractRecommendationType returns one of
\* PROCEED, DEFER, REJECT, REVIEW, HALT, UNKNOWN for every string: the
\* upper-cased leading token when that token is one of the five types in
\* any letter case, and UNKNOWN otherwise.
C24_LeadingTokenType ==
  (calc.of = "extract" /\ calc.done) =>
    /\ calc.type \in {TypeTokens[i] : i \in 1..Len(TypeTokens)} \cup {"UNKNOWN"}
    /\ calc.type =
         (IF ToUpperCase(LeadingToken(calc.recommendation))
               \in {TypeTokens[i] : i \in 1..Len(TypeTokens)}
          THEN ToUpperCase(LeadingToken(calc.recommendation))
          ELSE "UNKNOWN")

\* ----------------------------------------------------- the VectorClient
\* A client constructed with any configuration, called with any arguments
\* as time passes.
InitClient ==
  /\ HandlersIdle
  /\ calc = NoCalc
  /\ vectorClient \in {VectorClient(config) : config \in CircuitConfigs}
  /\ now = 0
  /\ callResult = NoCall
  /\ retry = NoRetry

NextClient ==
  \/ connect
  \/ \E args \in Arguments : upsert(args)
  \/ \E args \in Arguments : insert(args)
  \/ \E args \in Arguments : query(args)
  \/ \E args \in Arguments : similarity(args)
  \/ \E args \in Arguments : run_prediction(args)
  \/ ping
  \/ Tick

SpecClient == InitClient /\ [][NextClient]_vars

\* The methods the breaker guards.
GuardedOps == {"upsert", "insert", "query", "similarity", "run_prediction"}

\* A step is a call of a guarded method.
GuardedCall == callResult' # callResult /\ callResult'.op \in GuardedOps

\* The breaker is open and has waited less than its timeout.
OpenAndWaiting ==
  /\ vectorClient.circuitState = OPEN
  /\ now - vectorClient.lastFailureTime < vectorClient.circuitConfig.timeout

\* C25: while the breaker is OPEN and less than circuitBreaker.timeout has
\* passed since the last failure, every guarded call fails at once with
\* the circuit-breaker error, is not attempted and leaves the breaker's
\* state and failure count as they were; once the timeout has passed, the
\* next call is attempted as the half-open trial: its success closes the
\* breaker and clears the count, its failure reopens it.
C25_OpenFailsFast ==
  [][GuardedCall =>
       /\ OpenAndWaiting =>
            /\ callResult'.outcome = CircuitOpenError
            /\ ~callResult'.attempted
            /\ vectorClient' = vectorClient
       /\ (vectorClient.circuitState = OPEN /\ ~OpenAndWaiting) =>
            /\ callResult'.attempted
            /\ \/ /\ callResult'.outcome = Resolved
                  /\ vectorClient'.circuitState = CLOSED
                  /\ vectorClient'.failureCount = 0
               \/ /\ callResult'.outcome = TypeError
                  /\ vectorClient'.circuitState = OPEN
                  /\ vectorClient'.failureCount = vectorClient.failureCount + 1
                  /\ vectorClient'.lastFailureTime = now]_vars

\* A call was refused by a breaker that two failures had opened, one tick
\* after the second failure and one tick before its timeout.
C25_Witness ==
  /\ callResult.n >= 3
  /\ callResult.op \in GuardedOps
  /\ callResult.outcome = CircuitOpenError
  /\ vectorClient.circuitState = OPEN
  /\ vectorClient.failureCount = 2
  /\ vectorClient.circuitConfig.timeout = 2
  /\ now - vectorClient.lastFailureTime = 1

Returns(value) == [thrown |-> FALSE, value |-> value]
Throws(message) == [thrown |-> TRUE, message |-> message]

\* getRequiredEnvVar
getRequiredEnvVar(env, key) ==
  IF env[key] = Absent \/ env[key] = Some("")
  THEN Throws("FATAL: Missing required environment variable: " \o key
              \o ". Service cannot start without this configuration.")
  ELSE Returns(env[key][1])

\* getEnvVar
getEnvVar(env, key, defaultValue) ==
  IF env[key] # Absent /\ env[key] # Some("")
  THEN Returns(env[key][1]) ELSE Returns(defaultValue)

\* getOptionalEnvVar
getOptionalEnvVar(env, key) ==
  IF env[key] # Absent /\ env[key] # Some("")
  THEN Returns(env[key]) ELSE Returns(Absent)

\* getEnvNumber
getEnvNumber(env, key, defaultValue) ==
  IF env[key] = Absent THEN Returns(defaultValue)
  ELSE LET parsed == ParseInt(env[key][1])
       IN IF parsed = Absent
          THEN Throws("Environment variable " \o key
                      \o " must be a valid number")
          ELSE Returns(parsed[1])

\* getEnvBoolean
getEnvBoolean(env, key, defaultValue) ==
  IF env[key] = Absent THEN Returns(defaultValue)
  ELSE Returns(ToLowerCase(env[key][1]) = "true")

\* The object literal of config: its properties are evaluated in the
\* order written, and the first getter that throws ends the module load.
LoadConfig(env) ==
  LET got == << getEnvNumber(env, "PORT", 3000),
                getEnvVar(env, "LOG_LEVEL", "info"),
                getRequiredEnvVar(env, "RUVVECTOR_SERVICE_URL"),
                getOptionalEnvVar(env, "RUVVECTOR_API_KEY"),
                getEnvNumber(env, "RUVVECTOR_TIMEOUT", 30000),
                getEnvNumber(env, "RUVVECTOR_POOL_SIZE", 10),
                getEnvNumber(env, "CIRCUIT_BREAKER_THRESHOLD", 5),
                getEnvNumber(env, "CIRCUIT_BREAKER_TIMEOUT", 30000),
                getEnvNumber(env, "CIRCUIT_BREAKER_RESET", 60000),
                getEnvBoolean(env, "METRICS_ENABLED", TRUE),
                getEnvNumber(env, "METRICS_PORT", 9090),
                getEnvNumber(env, "SHUTDOWN_TIMEOUT", 30000) >>
      threw == {i \in 1..Len(got) : got[i].thrown}
  IN IF threw # {}
     THEN got[CHOOSE i \in threw : \A j \in threw : i <= j]
     ELSE Returns(
            [port |-> got[1].value,
             logLevel |-> got[2].value,
             ruvVector |-> [serviceUrl |-> got[3].value,
                            apiKey |-> got[4].value,
                            timeout |-> got[5].value,
                            poolSize |-> got[6].value],
             circuitBreaker |-> [threshold |-> got[7].value,
                                 timeout |-> got[8].value,
                                 resetTimeout |-> got[9].value],
             metrics |-> [enabled |-> got[10].value, port |-> got[11].value],
             shutdown |-> [timeout |-> got[12].value]])

\* Environments: the required variable unset, empty or set; the numeric
\* variables unset, positive, zero, negative, empty or not a number.
Environments ==
  {[k \in {"PORT", "LOG_LEVEL", "RUVVECTOR_SERVICE_URL", "RUVVECTOR_API_KEY",
           "RUVVECTOR_TIMEOUT", "RUVVECTOR_POOL_SIZE",
           "CIRCUIT_BREAKER_THRESHOLD", "CIRCUIT_BREAKER_TIMEOUT",
           "CIRCUIT_BREAKER_RESET", "METRICS_ENABLED", "METRICS_PORT",
           "SHUTDOWN_TIMEOUT"} |->
      CASE k = "PORT" -> port
        [] k = "RUVVECTOR_SERVICE_URL" -> url
        [] k = "RUVVECTOR_TIMEOUT" -> timeout
        [] k = "CIRCUIT_BREAKER_THRESHOLD" -> threshold
        [] k = "METRICS_ENABLED" -> enabled
        [] OTHER -> Absent] :
     port \in {Absent, Some("8080"), Some("0"), Some("-1"), Some(""),
               Some("abc")},
     url \in {Absent, Some(""), Some("http://ruvvector:6379")},
     timeout \in {Absent, Some("5000ms"), Some("0")},
     threshold \in {Absent, Some("3"), Some("-2")},
     enabled \in {Absent, Some("TRUE")}}

InitConfig ==
  /\ Started
  /\ calc \in {[of |-> "config", env |-> env, loaded |-> FALSE,
                result |-> Returns(Absent)] : env \in Environments}

\* require('../../src/config')
LoadStep ==
  /\ calc.of = "config"
  /\ ~calc.loaded
  /\ calc' = [calc EXCEPT !.result = LoadConfig(calc.env), !.loaded = TRUE]
  /\ UNCHANGED <<process, deploys, client, store, approver, nCreates, listPc, listReq, total,
                 listRes>>

NextConfig == LoadStep

SpecConfig == InitConfig /\ [][NextConfig]_vars

\* text contains part.
Includes(text, part) ==
  \E i \in 1..(Len(text) - Len(part) + 1) :
    SubSeq(text, i, i + Len(part) - 1) = part

\* C28 (the claim as stated): loading the configuration throws an error
\* naming RUVVECTOR_SERVICE_URL, and yields no config, whenever that
\* variable is unset or empty; with the variable set it yields a config
\* whose port, timeouts, pool size and breaker settings are all positive.
C28_FailFastOrPositive ==
  (calc.of = "config" /\ calc.loaded) =>
    IF calc.env["RUVVECTOR_SERVICE_URL"] \in {Absent, Some("")}
    THEN /\ calc.result.thrown
         /\ Includes(calc.result.message, "RUVVECTOR_SERVICE_URL")
    ELSE /\ ~calc.result.thrown
         /\ calc.result.value.port > 0
         /\ calc.result.value.ruvVector.timeout > 0
         /\ calc.result.value.ruvVector.poolSize > 0
         /\ calc.result.value.circuitBreaker.threshold > 0
         /\ calc.result.value.circuitBreaker.timeout > 0
         /\ calc.result.value.circuitBreaker.resetTimeout > 0
         /\ calc.result.value.metrics.port > 0
         /\ calc.result.value.shutdown.timeout > 0

\* -------------------------------------------------------------- withRetry
\* Errors an operation rejects with: name and message.
OperationErrors ==
  { [name |-> "Error", message |-> CircuitOpenError],
    [name |-> "Error", message |-> "connect ETIMEDOUT 10.0.0.7:6379"],
    [name |-> "Error", message |-> "Request Timeout"],
    [name |-> "TypeError",
     message |-> "Cannot read properties of undefined (reading 'id')"] }

\* The patterns of isRetryableError's default list.
transientPatterns ==
  <<"ECONNRESET", "ETIMEDOUT", "ECONNREFUSED", "EPIPE", "timeout",
    "socket hang up", "temporarily unavailable">>

\* isRetryableError(error, retryableErrors)
isRetryableError(error, retryableErrors) ==
  IF Includes(error.message, "Circuit breaker") THEN FALSE
  ELSE IF retryableErrors # Absent /\ Len(retryableErrors[1]) > 0
  THEN \E i \in 1..Len(retryableErrors[1]) :
         \/ Includes(error.message, retryableErrors[1][i])
         \/ Includes(error.name, retryableErrors[1][i])
  ELSE \E i \in 1..Len(transientPatterns) :
         Includes(ToLowerCase(error.message),
                  ToLowerCase(transientPatterns[i]))

\* The config a caller passes, merged over DEFAULT_RETRY_CONFIG; the
\* delays do not decide what is invoked and are left out.
RetryConfigs ==
  {[maxAttempts |-> m, retryableErrors |-> r] :
     m \in 0..MaxAttempts,
     r \in {Absent, Some(<< >>), Some(<<"TypeError">>),
            Some(<<"Circuit breaker", "ETIMEDOUT">>)}}

\* How an invocation of operation() has settled.
Pending == [settled |-> "pending"]
Fulfilled == [settled |-> "fulfilled"]
Rejected(error) == [settled |-> "rejected", error |-> error]

\* withRetry(operation, config) is called: attempt 1 invokes operation()
\* when 1 <= maxAttempts; otherwise the loop is skipped and the failure
\* is returned with lastError undefined.
WithRetry(config) ==
  /\ retry.pc = "idle"
  /\ retry' =
       IF 1 <= config.maxAttempts
       THEN [pc |-> "await", fullConfig |-> config, attempt |-> 1,
             lastError |-> Absent, result |-> Absent,
             invoked |-> <<Pending>>]
       ELSE [pc |-> "returned", fullConfig |-> config, attempt |-> 1,
             lastError |-> Absent,
             result |-> Some([success |-> FALSE, error |-> "undefined",
                              attempts |-> config.maxAttempts]),
             invoked |-> << >>]
  /\ UNCHANGED <<process, deploys, store, approver, nCreates, aux, vectorClient, now,
                 callResult>>

\* The awaited operation resolves: withRetry returns success.
OperationFulfils ==
  /\ retry.pc = "await"
  /\ retry' = [retry EXCEPT
       !.pc = "returned",
       !.invoked[retry.attempt] = Fulfilled,
       !.result = Some([success |-> TRUE, attempts |-> retry.attempt])]
  /\ UNCHANGED <<process, deploys, store, approver, nCreates, aux, vectorClient, now,
                 callResult>>

\* Mutant: the failure that is not retried ends the loop, and the result
\* still reports maxAttempts.
OperationRejectsAndReturns(error) ==
  /\ retry.pc = "await"
  /\ LET isLastAttempt == retry.attempt >= retry.fullConfig.maxAttempts
         caught == [retry EXCEPT !.lastError = Some(error),
                                 !.invoked[retry.attempt] = Rejected(error)]
     IN IF /\ ~isLastAttempt
           /\ isRetryableError(error, retry.fullConfig.retryableErrors)
        THEN retry' = [caught EXCEPT !.pc = "sleep"]
        ELSE retry' = [caught EXCEPT
               !.pc = "returned",
               !.result = Some([success |-> FALSE, error |-> error,
                                attempts |-> retry.fullConfig.maxAttempts])]
  /\ UNCHANGED <<process, deploys, store, approver, nCreates, aux, vectorClient, now,
                 callResult>>

\* The awaited operation rejects with error: the catch block.  When it
\* should retry it awaits sleep(delayMs); otherwise it logs the final
\* failure, and the for loop goes on: attempt++ and, while attempt <=
\* maxAttempts, operation() is invoked again; after the loop withRetry
\* returns the failure with attempts = maxAttempts.
OperationRejects(error) ==
  /\ retry.pc = "await"
  /\ LET isLastAttempt == retry.attempt >= retry.fullConfig.maxAttempts
         shouldRetry ==
           /\ ~isLastAttempt
           /\ isRetryableError(error, retry.fullConfig.retryableErrors)
         caught == [retry EXCEPT !.lastError = Some(error),
                                 !.invoked[retry.attempt] = Rejected(error)]
     IN IF shouldRetry
        THEN retry' = [caught EXCEPT !.pc = "sleep"]
        ELSE IF retry.attempt + 1 <= retry.fullConfig.maxAttempts
        THEN retry' = [caught EXCEPT
               !.attempt = @ + 1,
               !.invoked = Append(@, Pending)]
        ELSE retry' = [caught EXCEPT
               !.pc = "returned",
               !.result = Some([success |-> FALSE, error |-> error,
                                attempts |-> retry.fullConfig.maxAttempts])]
  /\ UNCHANGED <<process, deploys, store, approver, nCreates, aux, vectorClient, now,
                 callResult>>

\* sleep(delayMs) ends: attempt++ and operation() is invoked again.
SleepEnds ==
  /\ retry.pc = "sleep"
  /\ retry' = [retry EXCEPT !.pc = "await", !.attempt = @ + 1,
                            !.invoked = Append(@, Pending)]
  /\ UNCHANGED <<process, deploys, store, approver, nCreates, aux, vectorClient, now,
                 callResult>>

\* Calls of withRetry with any configuration, on an operation that may
\* resolve or reject with any error at every invocation.
NextRetry ==
  \/ \E config \in RetryConfigs : WithRetry(config)
  \/ OperationFulfils
  \/ \E error \in OperationErrors : OperationRejects(error)
  \/ SleepEnds

SpecRetry == Init /\ [][NextRetry]_vars

\* C29 (the claim as stated): withRetry never invokes the operation again
\* after it has failed with a non-retryable error (one whose message
\* contains 'Circuit breaker', or one that matches none of the retryable
\* patterns): the failing attempt is the last invocation.
C29_NoRetryOfNonRetryable ==
  retry.pc # "idle" =>
    \A i \in 1..Len(retry.invoked) :
      ( /\ retry.invoked[i].settled = "rejected"
        /\ ~isRetryableError(retry.invoked[i].error,
                             retry.fullConfig.retryableErrors) )
        => i = Len(retry.invoked)

\* ------------------------------------------------- deployments handlers
VALID_STATUSES == {"pending", "previewed", "running", "completed", "failed",
                   "rolled_back"}

\* z.number().int().positive().optional()
IsOptionalVersion(v) == v = Absent \/ v[1] > 0

createDeploymentSchema(b) ==
  /\ IsUuid(b.id)
  /\ b.status \in VALID_STATUSES
  /\ IsOptionalVersion(b.version)

updateDeploymentSchema(b) ==
  /\ b.status = Absent \/ b.status[1] \in VALID_STATUSES
  /\ IsOptionalVersion(b.version)

\* Bodies of POST /v1/deployments: a valid one, one that sets the version,
\* one with a status outside the enum.
CreateDeploymentBodies ==
  {[id |-> "d1", status |-> "pending", version |-> Absent],
   [id |-> "D1", status |-> "previewed", version |-> Some(2)],
   [id |-> "d1", status |-> "started", version |-> Absent]}

\* Path parameters of PUT /v1/deployments/:id: a stored deployment, one
\* that is never stored, a text that is no UUID.
DeploymentIds == {"d1", "e2", "zz"}

\* Bodies of PUT /v1/deployments/:id.
UpdateDeploymentBodies ==
  {[status |-> s, version |-> v] :
     s \in {Absent, Some("running"), Some("completed")},
     v \in {Absent, Some(0), Some(2), Some(3)}}

DeploymentValidationError(message) ==
  [status |-> 400, error |-> "validation_error", message |-> message]
DeploymentInternalError(message) ==
  [status |-> 500, error |-> "internal_error", message |-> message]
DeploymentNotFound == [status |-> 404, error |-> "Deployment not found"]

Respond(w, received, response) ==
  request' = [request EXCEPT
                ![w] = [received EXCEPT !.pc = "idle", !.res = response]]

\* createDeploymentHandler: the body is parsed and the row is stored by one
\* INSERT ... ON CONFLICT (id) DO UPDATE, which overwrites status and
\* version of a stored row; the query may throw.
CreateDeployment(w, b) ==
  /\ request[w].pc = "idle"
  /\ nRequests < MaxRequests
  /\ nRequests' = nRequests + 1
  /\ LET received == [NoRequest EXCEPT
                        !.handler = "create", !.id = b.id,
                        !.body = [status |-> Some(b.status),
                                  version |-> b.version]]
         versionNum == IF b.version # Absent THEN b.version[1] ELSE 1
         row == [id |-> CanonUuid(b.id), status |-> b.status,
                 version |-> versionNum]
     IN IF ~createDeploymentSchema(b)
        THEN /\ Respond(w, received,
                        DeploymentValidationError("Request validation failed"))
             /\ UNCHANGED deployments
        ELSE \/ /\ deployments' =
                     IF row.id \in DOMAIN deployments
                     THEN [deployments EXCEPT ![row.id] = row]
                     ELSE deployments @@ (row.id :> row)
                /\ Respond(w, received,
                           [status |-> 201, id |-> b.id, created |-> TRUE])
             \/ /\ Respond(w, received,
                           DeploymentInternalError("Failed to store deployment"))
                /\ UNCHANGED deployments
  /\ UNCHANGED <<process, client, store, approver, nCreates, aux>>

\* updateDeploymentHandler up to its first await: the path parameter and
\* the body are validated, then the SELECT is sent.
UpdateReceive(w, id, b) ==
  /\ request[w].pc = "idle"
  /\ nRequests < MaxRequests
  /\ nRequests' = nRequests + 1
  /\ LET received == [NoRequest EXCEPT
                        !.handler = "update", !.id = id, !.body = b]
     IN IF ~IsUuid(id)
        THEN Respond(w, received,
               DeploymentValidationError("Invalid deployment ID format (must be UUID)"))
        ELSE IF ~updateDeploymentSchema(b)
        THEN Respond(w, received,
                     DeploymentValidationError("Request validation failed"))
        ELSE request' = [request EXCEPT
                           ![w] = [received EXCEPT !.pc = "select"]]
  /\ UNCHANGED <<process, client, store, approver, nCreates, aux, deployments>>

\* Mutant: only a version at or below the stored one is a conflict.
VersionBehind(requested, currentVersion) ==
  /\ requested # Absent
  /\ requested[1] <= currentVersion

\* The version conflict check (optimistic locking).
VersionConflict(requested, currentVersion) ==
  /\ requested # Absent
  /\ requested[1] # currentVersion + 1

\* SELECT id, version returns: 404 without a row, 409 when the body's
\* version is not the stored version plus one; otherwise the UPDATE is
\* sent.
UpdateSelect(w) ==
  /\ request[w].pc = "select"
  /\ LET r == request[w]
         key == CanonUuid(r.id)
     IN IF key \notin DOMAIN deployments
        THEN Respond(w, r, DeploymentNotFound)
        ELSE LET currentVersion == deployments[key].version
             IN IF VersionConflict(r.body.version, currentVersion)
                THEN Respond(w, r,
                       [status |-> 409, error |-> "Version conflict",
                        current_version |-> currentVersion,
                        requested_version |-> r.body.version[1]])
                ELSE request' =
                       [request EXCEPT
                          ![w] = [r EXCEPT
                                    !.pc = "update",
                                    !.currentVersion = currentVersion]]
  /\ UNCHANGED <<process, client, store, approver, nCreates, aux, deployments,
                 nRequests>>

\* The WHERE clause of the UPDATE statement.
UpdateWhereId(row, r) == row.id = CanonUuid(r.id)

\* UPDATE deployments SET ... WHERE id = $n RETURNING ... returns: 404
\* when no row was updated, otherwise 200 with the updated row.
UpdateWrite(w) ==
  /\ request[w].pc = "update"
  /\ LET r == request[w]
         key == CanonUuid(r.id)
         newVersion == IF r.body.version # Absent
                       THEN r.body.version[1]
                       ELSE r.currentVersion + 1
         updated == {k \in DOMAIN deployments :
                       UpdateWhereId(deployments[k], r)}
     IN IF updated = {}
        THEN /\ Respond(w, r, DeploymentNotFound)
             /\ UNCHANGED deployments
        ELSE /\ deployments' =
                  [k \in DOMAIN deployments |->
                     IF k \in updated
                     THEN [deployments[k] EXCEPT
                             !.status = IF r.body.status # Absent
                                        THEN r.body.status[1] ELSE @,
                             !.version = newVersion]
                     ELSE deployments[k]]
             /\ Respond(w, r, [status |-> 200,
                               deployment |-> deployments'[key]])
  /\ UNCHANGED <<process, client, store, approver, nCreates, aux, nRequests>>

\* The awaited query of updateDeploymentHandler throws: 500.
UpdateFails(w) ==
  /\ request[w].pc \in {"select", "update"}
  /\ Respond(w, request[w], DeploymentInternalError("Failed to update deployment"))
  /\ UNCHANGED <<process, client, store, approver, nCreates, aux, deployments,
                 nRequests>>

\* Deployments that are stored once and then updated by two clients.
NextDeploy ==
  \E w \in Workers :
    \/ \E b \in CreateDeploymentBodies :
         /\ CanonUuid(b.id) \notin DOMAIN deployments
         /\ CreateDeployment(w, b)
    \/ \E id \in DeploymentIds, b \in UpdateDeploymentBodies :
         UpdateReceive(w, id, b)
    \/ UpdateSelect(w)
    \/ UpdateWrite(w)
    \/ UpdateFails(w)

SpecDeploy == Init /\ [][NextDeploy]_vars

\* The update request of worker w was answered 200.
UpdateSucceeded(w) ==
  /\ request[w].handler = "update"
  /\ request[w].res.status = 200

\* C30: of two updates of one deployment stored at version v that both
\* carry version v + 1, at most one is answered 200; the other is answered
\* 409 Version conflict.
C30_AtMostOneUpdateSucceeds ==
  \A w1, w2 \in Workers :
    (/\ w1 # w2
     /\ UpdateSucceeded(w1)
     /\ UpdateSucceeded(w2)
     /\ CanonUuid(request[w1].id) = CanonUuid(request[w2].id)
     /\ request[w1].body.version # Absent
     /\ request[w1].body.version = request[w2].body.version)
      => FALSE

\* Deployments that are stored, stored again and updated in any order.
NextRedeploy ==
  \E w \in Workers :
    \/ \E b \in CreateDeploymentBodies : CreateDeployment(w, b)
    \/ \E id \in DeploymentIds, b \in UpdateDeploymentBodies :
         UpdateReceive(w, id, b)
    \/ UpdateSelect(w)
    \/ UpdateWrite(w)
    \/ UpdateFails(w)

SpecRedeploy == Init /\ [][NextRedeploy]_vars

\* This step is the UPDATE of worker w returning its row (a 200).
UpdateReturnsRow(w) ==
  /\ request[w].pc = "update"
  /\ request'[w].res.status = 200

\* C31: the version of a stored deployment never decreases, and the step
\* of a successful update raises it by exactly 1, whatever creates and
\* updates of that id interleave.
C31_VersionGrowsByOne ==
  [][\A k \in DOMAIN deployments :
       /\ deployments'[k].version >= deployments[k].version
       /\ \A w \in Workers :
            (UpdateReturnsRow(w) /\ CanonUuid(request[w].id) = k)
              => deployments'[k].version = deployments[k].version + 1]_vars

\* This step is the SELECT of worker w returning while the row is stored.
SelectReturnsRow(w) ==
  /\ request[w].pc = "select"
  /\ request'[w].pc # "select"
  /\ request'[w].res.status # 500
  /\ CanonUuid(request[w].id) \in DOMAIN deployments

\* C32: an update of a stored deployment whose body carries a version
\* other than the stored version plus one is answered 409 Version conflict
\* with both versions, and the table is left as it was.
C32_ConflictLeavesRow ==
  [][\A w \in Workers :
       (/\ SelectReturnsRow(w)
        /\ request[w].body.version # Absent
        /\ request[w].body.version[1] #
             deployments[CanonUuid(request[w].id)].version + 1)
         => /\ request'[w].pc = "idle"
            /\ request'[w].res =
                 [status |-> 409, error |-> "Version conflict",
                  current_version |->
                    deployments[CanonUuid(request[w].id)].version,
                  requested_version |-> request[w].body.version[1]]
            /\ deployments' = deployments]_vars

\* A stored deployment at version 2 and an update carrying version 2 that
\* was answered 409.
C32_Witness ==
  \E w \in Workers :
    /\ request[w].handler = "update"
    /\ request[w].res.status = 409
    /\ request[w].res.requested_version = 2
    /\ CanonUuid(request[w].id) \in DOMAIN deployments
    /\ deployments[CanonUuid(request[w].id)].version = 2

\* A step is a call that went through checkCircuit and was attempted.
AttemptedCall ==
  /\ callResult' # callResult
  /\ callResult'.op \in GuardedOps \cup {"ping"}
  /\ callResult'.attempted

\* The attempted call of this step succeeded.
CallSucceeded ==
  IF callResult'.op = "ping"
  THEN callResult'.outcome
  ELSE callResult'.outcome = Resolved

\* C33: a call attempted while the breaker is HALF_OPEN closes it and
\* clears failureCount when it succeeds and reopens it when it fails; a
\* step takes the breaker from OPEN to CLOSED only as connect() or as a
\* call that checkCircuit first moved to HALF_OPEN.
C33_HalfOpenTrial ==
  [][/\ (AttemptedCall /\ callResult'.checked = HALF_OPEN) =>
          IF CallSucceeded
          THEN /\ vectorClient'.circuitState = CLOSED
               /\ vectorClient'.failureCount = 0
          ELSE vectorClient'.circuitState = OPEN
     /\ (vectorClient.circuitState = OPEN
         /\ vectorClient'.circuitState = CLOSED) =>
          \/ callResult'.op = "connect"
          \/ AttemptedCall /\ callResult'.checked = HALF_OPEN]_vars

\* A guarded call went through the half-open state, succeeded and left
\* the breaker closed after two counted failures.
C33_Witness ==
  /\ callResult.n > 2
  /\ callResult.op \in GuardedOps
  /\ callResult.checked = HALF_OPEN
  /\ callResult.outcome = Resolved
  /\ vectorClient.circuitState = CLOSED
  /\ vectorClient.failureCount = 0

\* C34: a guarded call on a CLOSED breaker leaves the client as it is when
\* it succeeds (the count is not cleared), and when it fails adds one to
\* failureCount and opens the breaker exactly if the new count reaches the
\* threshold; every failed call is counted, and the count only ever goes
\* down in connect() or in the success that closes a half-open breaker.
C34_CumulativeThreshold ==
  [][/\ (GuardedCall /\ vectorClient.circuitState = CLOSED) =>
          IF callResult'.outcome = Resolved
          THEN vectorClient' = vectorClient
          ELSE /\ vectorClient'.failureCount = vectorClient.failureCount + 1
               /\ vectorClient'.circuitState =
                    IF vectorClient.failureCount + 1 >=
                         vectorClient.circuitConfig.threshold
                    THEN OPEN ELSE CLOSED
     /\ (AttemptedCall /\ ~CallSucceeded) =>
          vectorClient'.failureCount = vectorClient.failureCount + 1
     /\ vectorClient'.failureCount < vectorClient.failureCount =>
          \/ callResult'.op = "connect"
          \/ AttemptedCall /\ CallSucceeded
             /\ callResult'.checked = HALF_OPEN]_vars

\* A call succeeded on a closed breaker that had counted one failure, and
\* the count is still one.
C34_Witness ==
  /\ callResult.n > 1
  /\ callResult.op \in GuardedOps
  /\ callResult.outcome = Resolved
  /\ callResult.checked = CLOSED
  /\ vectorClient.circuitState = CLOSED
  /\ vectorClient.failureCount = 1

\* withRetry where every invocation of operation() settles and every
\* sleep ends.
SpecRetryLive ==
  /\ Init
  /\ [][NextRetry]_vars
  /\ WF_vars(OperationFulfils)
  /\ WF_vars(\E error \in OperationErrors : OperationRejects(error))
  /\ WF_vars(SleepEnds)

\* What holds of a call of withRetry at every moment.
RetryBounded ==
  retry.pc # "idle" =>
    /\ Len(retry.invoked) <= retry.fullConfig.maxAttempts
    /\ \A i \in 1..Len(retry.invoked) :
         retry.invoked[i].settled = "fulfilled" =>
           /\ i = Len(retry.invoked)
           /\ retry.pc = "returned"
           /\ retry.result[1].success
    /\ retry.pc = "returned" =>
         retry.result[1].attempts = Len(retry.invoked)

\* C35: a call of withRetry returns when every invocation settles; it
\* invokes the operation at most maxAttempts times, no invocation follows
\* a fulfilled one, and result.attempts is the number of invocations made.
C35_RetryTerminates ==
  /\ []RetryBounded
  /\ (retry.pc # "idle") ~> (retry.pc = "returned")

\* withRetry returned the success of the second of at most three
\* invocations.
C35_Witness ==
  /\ retry.pc = "returned"
  /\ retry.fullConfig.maxAttempts = 3
  /\ retry.result[1].success
  /\ retry.result[1].attempts = 2
  /\ Len(retry.invoked) = 2

\* ---------------------------------------------------- graceful shutdown
Signals == {"SIGTERM", "SIGINT"}

Running == process.exitCode = Absent

\* process.exit(code) after the log line that precedes it.
Exit(code, message) ==
  process' = [process EXCEPT !.exitCode = Some(code), !.logged = message]

\* Mutant: the handler closes the pool without waiting for the server.
ShutdownClosesPoolFirst(signal) ==
  /\ Running
  /\ Len(process.shutdowns) < MaxSignals
  /\ process' = [process EXCEPT
       !.server = IF @ = "listening" THEN "closing" ELSE @,
       !.pool = IF @ = "open" THEN "ending" ELSE @,
       !.shutdowns = Append(@, [signal |-> signal, pc |-> "awaitDbClose"]),
       !.logged = "Received shutdown signal, starting graceful shutdown"]
  /\ UNCHANGED <<client, deploys, store, approver, nCreates, aux>>

\* shutdown(signal) up to its first await: server.close() stops the
\* listening server, the shutdown timer is armed and the handler waits
\* for the server's 'close' event.
Shutdown(signal) ==
  /\ Running
  /\ Len(process.shutdowns) < MaxSignals
  /\ process' = [process EXCEPT
       !.server = IF @ = "listening" THEN "closing" ELSE @,
       !.shutdowns = Append(@, [signal |-> signal, pc |-> "awaitClose"]),
       !.logged = "Received shutdown signal, starting graceful shutdown"]
  /\ UNCHANGED <<client, deploys, store, approver, nCreates, aux>>

\* The server emits 'close' (its connections have ended; a server.close()
\* on a closed server may emit it again): every handler waiting for it
\* resumes and calls dbClient.close(), which awaits pool.end().
ServerEmitsClose ==
  /\ Running
  /\ \/ process.server = "closing"
     \/ /\ process.server = "closed"
        /\ \E i \in 1..Len(process.shutdowns) :
             process.shutdowns[i].pc = "awaitClose"
  /\ process' = [process EXCEPT
       !.server = "closed",
       !.pool = IF @ = "open" THEN "ending" ELSE @,
       !.shutdowns = [i \in 1..Len(@) |->
                        [@[i] EXCEPT !.pc = "awaitDbClose"]],
       !.logged = "HTTP server closed"]
  /\ UNCHANGED <<client, deploys, store, approver, nCreates, aux>>

\* pool.end() of handler i resolves: the timer is cleared and the process
\* exits with 0.
PoolEnds(i) ==
  /\ Running
  /\ i \in 1..Len(process.shutdowns)
  /\ process.shutdowns[i].pc = "awaitDbClose"
  /\ process' = [process EXCEPT
       !.pool = "ended",
       !.exitCode = Some(0),
       !.logged = "Graceful shutdown completed"]
  /\ UNCHANGED <<client, deploys, store, approver, nCreates, aux>>

\* pool.end() of handler i rejects: the catch block exits with 1.
PoolEndRejects(i) ==
  /\ Running
  /\ i \in 1..Len(process.shutdowns)
  /\ process.shutdowns[i].pc = "awaitDbClose"
  /\ Exit(1, "Error during graceful shutdown")
  /\ UNCHANGED <<client, deploys, store, approver, nCreates, aux>>

\* The shutdown timer of handler i fires after config.shutdown.timeout.
ShutdownTimeout(i) ==
  /\ Running
  /\ i \in 1..Len(process.shutdowns)
  /\ Exit(1, "Graceful shutdown timeout exceeded, forcing exit")
  /\ UNCHANGED <<client, deploys, store, approver, nCreates, aux>>

\* process.on('uncaughtException') and process.on('unhandledRejection').
Fatal(message) ==
  /\ Running
  /\ Exit(1, message)
  /\ UNCHANGED <<client, deploys, store, approver, nCreates, aux>>

NextShutdown ==
  \/ \E signal \in Signals : Shutdown(signal)
  \/ ServerEmitsClose
  \/ \E i \in 1..MaxSignals : PoolEnds(i)
  \/ \E i \in 1..MaxSignals : PoolEndRejects(i)
  \/ \E i \in 1..MaxSignals : ShutdownTimeout(i)
  \/ \E message \in {"Uncaught exception", "Unhandled promise rejection"} :
       Fatal(message)

\* Timers fire; connections need not drain and pool.end() need not settle.
SpecShutdown ==
  /\ Init
  /\ [][NextShutdown]_vars
  /\ \A i \in 1..MaxSignals : WF_vars(ShutdownTimeout(i))

\* What holds of the process at every moment.
ShutdownOrdered ==
  /\ process.pool # "open" => process.server = "closed"
  /\ process.exitCode = Some(0) =>
       /\ process.server = "closed"
       /\ process.pool = "ended"
  /\ process.logged = "Graceful shutdown timeout exceeded, forcing exit" =>
       process.exitCode = Some(1)
  /\ (process.exitCode # Absent /\ process.server # "closed") =>
       process.exitCode = Some(1)

\* C36: once a shutdown signal was handled the process exits; the pool
\* is closed only after the server emitted 'close'; exit code 0 is used
\* only after the server closed and the pool ended; when the shutdown
\* timer fires, and whenever the server has not closed, the exit code
\* is 1.
C36_ShutdownExits ==
  /\ []ShutdownOrdered
  /\ (process.shutdowns # << >>) ~> (process.exitCode # Absent)

\* The timer fired on a server that had not closed, after two signals.
C36_Witness ==
  /\ Len(process.shutdowns) = 2
  /\ process.server = "closing"
  /\ process.pool = "open"
  /\ process.logged = "Graceful shutdown timeout exceeded, forcing exit"
  /\ process.exitCode = Some(1)

\* Two approval events were received, one per worker, and both were
\* answered 201.
BothApplied ==
  /\ nApprovals = 2
  /\ \A w \in Workers : pc[w] = "idle" /\ res[w].status = 201

\* The edge keys of the event answered to worker w.
EventKeys(w) ==
  LET dec == decisions[CanonUuid(res[w].decision_id)]
  IN {EdgeKey(i, res[w].decision_id, dec,
              extractRecommendationType(dec.recommendation)) :
        i \in 1..NumEdges}

\* The rewards edge k receives when the event of worker a is applied
\* whole and then the event of worker b.
RewardsInOrder(k, a, b) ==
  (IF k \in EventKeys(a) THEN <<res[a].reward>> ELSE << >>)
    \o (IF k \in EventKeys(b) THEN <<res[b].reward>> ELSE << >>)

\* The row of edge k is the EMA rule folded over rewards, an empty ledger
\* before.
FoldedRow(k, rewards) ==
  /\ LedgerRow(k).update_count = Len(rewards)
  /\ Len(rewards) > 0
  /\ Pow10(Len(rewards) - 1) * LedgerRow(k).weight = ScaledEma(rewards)

\* C37 (the claim as stated): two approval events are atomic with respect
\* to each other: the ledger they leave is the ledger of the two events
\* applied one after the other, in one of the two orders.
C37_EventsSerialized ==
  BothApplied =>
    /\ LedgerKeys = EventKeys("w1") \cup EventKeys("w2")
    /\ \/ \A k \in LedgerKeys : FoldedRow(k, RewardsInOrder(k, "w1", "w2"))
       \/ \A k \in LedgerKeys : FoldedRow(k, RewardsInOrder(k, "w2", "w1"))

\* C37 (amended): every edge taken alone is left as by the two events
\* applied one after the other in one of the two orders; the order may
\* differ from edge to edge.
C37_EdgesSerialized ==
  BothApplied =>
    /\ LedgerKeys = EventKeys("w1") \cup EventKeys("w2")
    /\ \A k \in LedgerKeys :
         \/ FoldedRow(k, RewardsInOrder(k, "w1", "w2"))
         \/ FoldedRow(k, RewardsInOrder(k, "w2", "w1"))

\* Two events with different rewards were interleaved: one shared edge
\* holds the first order only and another shared edge the second only.
C37_Witness ==
  /\ BothApplied
  /\ \E k1, k2 \in LedgerKeys :
       /\ FoldedRow(k1, RewardsInOrder(k1, "w1", "w2"))
       /\ ~FoldedRow(k1, RewardsInOrder(k1, "w2", "w1"))
       /\ FoldedRow(k2, RewardsInOrder(k2, "w2", "w1"))
       /\ ~FoldedRow(k2, RewardsInOrder(k2, "w1", "w2"))

\* C38 (the claim as stated): a page that listDecisions returns for the
\* decisions its count query counted holds each decision at most once and
\* no more items than min(effective limit, total), whatever creations and
\* approvals came before.
C38_PageWithoutRepeats ==
  [][(/\ listPc = "select"
      /\ listRes'.status = 200
      /\ total = CountQuery(listReq, decisions)) =>
       /\ \A i, j \in 1..Len(listRes'.data) :
            i # j => listRes'.data[i] # listRes'.data[j]
       /\ Len(listRes'.data) <= Min(listRes'.limit, listRes'.total)]_vars

\* C39 (the claim as stated): the approvals row stores the supplied
\* confidence adjustment whenever one was supplied, 0 included, and null
\* only when the request carried none.
C39_AdjustmentStored ==
  [][\A w \in Workers :
       (pc[w] = "insert" /\ pc'[w] = "edge") =>
         /\ Len(approvals') = Len(approvals) + 1
         /\ LET stored == approvals'[Len(approvals')].confidence_adjustment
                supplied == body[w].confidence_adjustment
            IN IF supplied = Absent THEN stored = Null
               ELSE stored = supplied]_vars

====
